---- MODULE Spec2Model ----
(***************************************************************************)
(* State-machine model of the property-agent repository: the sqlite        *)
(* tables of database/db.py, the scrape_and_notify job of                  *)
(* scheduler/job_scheduler.py, the process life cycle of main.py, the bot  *)
(* command handlers of bot/telegram_bot.py and the extraction functions of *)
(* parser/listing_parser.py.                                               *)
(*                                                                         *)
(* Conventions.  Python None / SQL NULL is the value None.  A text is a    *)
(* sequence of lines (strings); the text the program sees is the lines     *)
(* joined by one separator character.  A calendar date is a day number,    *)
(* ordered as its ISO string is.  datetime.utcnow() is read at day         *)
(* granularity from the variable day.  sha256 is taken to be injective, so *)
(* a hash is modelled by the key it digests.                               *)
(***************************************************************************)
EXTENDS Integers, Sequences, FiniteSets, TLC

\* ------------------------------------------------------------------------
\* Bounds of the model
\* ------------------------------------------------------------------------

\* Last day the clock reaches.
MaxDay == 2

\* Number of bot commands handled in one behaviour.
MaxCmds == 1

\* Number of scrape_and_notify tasks begun in one behaviour.
MaxRuns == 2

\* Number of lines of a document handed to parse_pdf_properties.
MaxLines == 5

\* ------------------------------------------------------------------------
\* Values
\* ------------------------------------------------------------------------

None == -1

\* Python None where a list of strings is expected, SQL NULL in a text column,
\* and the None that get_preference returns.
NoList == <<"None">>
NullText == << >>
NoPreference == [id |-> 0]

\* Telegram ids of the people who may talk to the bot.
TelegramIds == {1, 2}

RunIds == {"startup", "cron"}

\* ------------------------------------------------------------------------
\* Texts
\* ------------------------------------------------------------------------

RECURSIVE TextLen(_)
\* len() of a text: its lines and one separator between consecutive lines.
TextLen(text) ==
    IF text = << >> THEN 0
    ELSE IF Len(text) = 1 THEN Len(text[1])
    ELSE Len(text[1]) + 1 + TextLen(Tail(text))

RECURSIVE TextPrefix(_, _)
\* text[:n]: for each line that begins within the first n characters the
\* pair <<line, characters kept>>, and between two of them the separator.
TextPrefix(text, n) ==
    IF text = << >> \/ n <= 0 THEN << >>
    ELSE IF Len(text[1]) >= n THEN << <<text[1], n>> >>
    ELSE IF Len(text) = 1 THEN << <<text[1], Len(text[1])>> >>
    ELSE << <<text[1], Len(text[1])>>, <<"\n", 1>> >>
         \o TextPrefix(Tail(text), n - Len(text[1]) - 1)

\* Lines of the documents the site serves.
StartLine == "NO IMAGE ADDRESS DESCRIPTION"
EndLine == "RULES OF SALE IN EXECUTION"
LineRoodepoort == "12 Main Road, Roodepoort, Erf 1204, 3 bedroom dwelling under tiled roof with garage"
LineSize == "450 m2"
LineCourt == "R 850,000 Court Reserve"
LineKrugersdorp == "7 Oak Street, Krugersdorp"
LineNCR == "No Court Reserve"
LineSandton == "3 Hill Avenue, Sandton"
LineBank == "Bank Reserve"
LineShort == "Page 2"

\* The characters of the lines above and of the keywords a user may set.
Spelling ==
    (StartLine :> <<"N", "O", " ", "I", "M", "A", "G", "E", " ", "A", "D", "D", "R", "E", "S",
          "S", " ", "D", "E", "S", "C", "R", "I", "P", "T", "I", "O", "N">>)
    @@ (EndLine :> <<"R", "U", "L", "E", "S", " ", "O", "F", " ", "S", "A", "L", "E", " ",
          "I", "N", " ", "E", "X", "E", "C", "U", "T", "I", "O", "N">>)
    @@ (LineRoodepoort :> <<"1", "2", " ", "M", "a", "i", "n", " ", "R", "o", "a", "d",
          ",", " ", "R", "o", "o", "d", "e", "p", "o", "o", "r", "t", ",", " ", "E", "r",
          "f", " ", "1", "2", "0", "4", ",", " ", "3", " ", "b", "e", "d", "r", "o", "o",
          "m", " ", "d", "w", "e", "l", "l", "i", "n", "g", " ", "u", "n", "d", "e", "r",
          " ", "t", "i", "l", "e", "d", " ", "r", "o", "o", "f", " ", "w", "i", "t", "h",
          " ", "g", "a", "r", "a", "g", "e">>)
    @@ (LineSize :> <<"4", "5", "0", " ", "m", "2">>)
    @@ (LineCourt :> <<"R", " ", "8", "5", "0", ",", "0", "0", "0", " ", "C", "o", "u",
          "r", "t", " ", "R", "e", "s", "e", "r", "v", "e">>)
    @@ (LineKrugersdorp :> <<"7", " ", "O", "a", "k", " ", "S", "t", "r", "e", "e", "t",
          ",", " ", "K", "r", "u", "g", "e", "r", "s", "d", "o", "r", "p">>)
    @@ (LineNCR :> <<"N", "o", " ", "C", "o", "u", "r", "t", " ", "R", "e", "s", "e", "r",
          "v", "e">>)
    @@ (LineSandton :> <<"3", " ", "H", "i", "l", "l", " ", "A", "v", "e", "n", "u", "e",
          ",", " ", "S", "a", "n", "d", "t", "o", "n">>)
    @@ (LineBank :> <<"B", "a", "n", "k", " ", "R", "e", "s", "e", "r", "v", "e">>)
    @@ (LineShort :> <<"P", "a", "g", "e", " ", "2">>)
    @@ ("Roodepoort" :> <<"R", "o", "o", "d", "e", "p", "o", "o", "r", "t">>)
    @@ ("rood" :> <<"r", "o", "o", "d">>)
    @@ ("Krugersdorp" :> <<"K", "r", "u", "g", "e", "r", "s", "d", "o", "r", "p">>)
    @@ ("Sandton" :> <<"S", "a", "n", "d", "t", "o", "n">>)
    @@ ("SANDTON" :> <<"S", "A", "N", "D", "T", "O", "N">>)
    @@ ("main road" :> <<"m", "a", "i", "n", " ", "r", "o", "a", "d">>)
    @@ ("Benoni" :> <<"B", "e", "n", "o", "n", "i">>)
    @@ ("no court reserve" :> <<"n", "o", " ", "c", "o", "u", "r", "t", " ", "r", "e", "s",
          "e", "r", "v", "e">>)
    @@ ("bank reserve" :> <<"b", "a", "n", "k", " ", "r", "e", "s", "e", "r", "v", "e">>)
    @@ ("court reserve" :> <<"c", "o", "u", "r", "t", " ", "r", "e", "s", "e", "r", "v", "e">>)

UpperCase == <<"A", "B", "C", "D", "E", "F", "G", "H", "I", "J", "K", "L", "M",
               "N", "O", "P", "Q", "R", "S", "T", "U", "V", "W", "X", "Y", "Z">>
LowerCase == <<"a", "b", "c", "d", "e", "f", "g", "h", "i", "j", "k", "l", "m",
               "n", "o", "p", "q", "r", "s", "t", "u", "v", "w", "x", "y", "z">>

\* str.lower() on a sequence of characters.
lower(chars) ==
    [i \in 1..Len(chars) |->
        IF \E k \in 1..Len(UpperCase) : UpperCase[k] = chars[i]
        THEN LowerCase[CHOOSE k \in 1..Len(UpperCase) : UpperCase[k] = chars[i]]
        ELSE chars[i]]

\* s.lower() for every string of Spelling.
LowerText == [s \in DOMAIN Spelling |-> lower(Spelling[s])]

\* needle in hay, on sequences of characters.
Contains(hay, needle) ==
    \E at \in 0..(Len(hay) - Len(needle)) :
        \A i \in 1..Len(needle) : hay[at + i] = needle[i]

\* _PROPERTY_SPLIT_RE on one line: the integer of a numbered-entry marker,
\* None for a line that is no marker.
MarkerNumber(line) ==
    CASE line = "0." -> 0
      [] line = "1." -> 1
      [] line = "2." -> 2
      [] line = "3." -> 3
      [] OTHER -> None

\* _SIZE_RE on one line: the digits before the unit, None without a match.
SizeIn(line) == IF line = LineSize THEN 450 ELSE None

\* _COURT_RESERVE_RE on one line: the amount before "Court Reserve".
CourtReserveIn(line) == IF line = LineCourt THEN 850000 ELSE None

\* _NO_COURT_RESERVE_RE and _BANK_RESERVE_RE on one line.
HasNoCourtReserve(line) == line = LineNCR
HasBankReserve(line) == line = LineBank

\* kw in text, without lower().
KeywordIn_exact(kw, line) == Contains(Spelling[line], Spelling[kw])

\* kw.lower() in text_lower, on one line of the text.
KeywordIn(kw, line) == Contains(LowerText[line], LowerText[kw])

\* ------------------------------------------------------------------------
\* parser/listing_parser.py: Property and parse_pdf_properties
\* ------------------------------------------------------------------------

\* Minimum length of a block that yields a record.
MinBlockLen == 20

\* Number of characters of raw_text that enter the hash key.
HashPrefixLen == 80

\* The dataclass Property.
Property(sale_date, number, raw_text, size_m2, reserve_price, reserve_type, pdf_url) ==
    [sale_date |-> sale_date, number |-> number, raw_text |-> raw_text,
     size_m2 |-> size_m2, reserve_price |-> reserve_price,
     reserve_type |-> reserve_type, pdf_url |-> pdf_url]

\* property_hash that digests the whole raw_text.
property_hash_whole(prop) == <<prop.sale_date, prop.number, prop.raw_text>>

\* Property.property_hash: sha256 of "sale_date|number|raw_text[:80]".
property_hash(prop) ==
    <<prop.sale_date, prop.number, TextPrefix(prop.raw_text, HashPrefixLen)>>

\* is_opportunity that leaves the bank reserve out.
is_opportunity_none(prop) == prop.reserve_type = "none"

\* Property.is_opportunity.
is_opportunity(prop) == prop.reserve_type \in {"none", "bank"}

\* _parse_size: the first size match of the block.
_parse_size(text) ==
    IF \E i \in 1..Len(text) : SizeIn(text[i]) # None
    THEN SizeIn(text[CHOOSE i \in 1..Len(text) :
                        /\ SizeIn(text[i]) # None
                        /\ \A j \in 1..(i - 1) : SizeIn(text[j]) = None])
    ELSE None

\* _parse_reserve that reads the amount before it looks for "Bank Reserve".
_parse_reserve_priced(text) ==
    LET amounts == {CourtReserveIn(text[i]) : i \in 1..Len(text)} \ {None}
        amount == IF amounts = {} THEN None ELSE CHOOSE a \in amounts : TRUE
    IN  IF \E i \in 1..Len(text) : HasNoCourtReserve(text[i]) THEN <<None, "none">>
        ELSE IF \E i \in 1..Len(text) : HasBankReserve(text[i]) THEN <<amount, "bank">>
        ELSE IF amount # None THEN <<amount, "court">>
        ELSE <<None, "unknown">>

\* _parse_reserve with the first two rules exchanged: "Bank Reserve" is looked
\* for before "No Court Reserve".
_parse_reserve_bank_first(text) ==
    IF \E i \in 1..Len(text) : HasBankReserve(text[i]) THEN <<None, "bank">>
    ELSE IF \E i \in 1..Len(text) : HasNoCourtReserve(text[i]) THEN <<None, "none">>
    ELSE IF \E i \in 1..Len(text) : CourtReserveIn(text[i]) # None
    THEN <<CHOOSE a \in {CourtReserveIn(text[i]) : i \in 1..Len(text)} \ {None} : TRUE,
           "court">>
    ELSE <<None, "unknown">>

\* _parse_reserve: <<reserve_price, reserve_type>>, the rules in their order.
_parse_reserve(text) ==
    IF \E i \in 1..Len(text) : HasNoCourtReserve(text[i]) THEN <<None, "none">>
    ELSE IF \E i \in 1..Len(text) : HasBankReserve(text[i]) THEN <<None, "bank">>
    ELSE IF \E i \in 1..Len(text) : CourtReserveIn(text[i]) # None
    THEN <<CourtReserveIn(text[CHOOSE i \in 1..Len(text) :
                                  /\ CourtReserveIn(text[i]) # None
                                  /\ \A j \in 1..(i - 1) : CourtReserveIn(text[j]) = None]),
           "court">>
    ELSE <<None, "unknown">>

\* Index of the first line of text that satisfies Test, 0 when there is none.
FirstIndex(text, Test(_)) ==
    IF \E i \in 1..Len(text) : Test(text[i])
    THEN CHOOSE i \in 1..Len(text) : Test(text[i]) /\ \A j \in 1..(i - 1) : ~Test(text[j])
    ELSE 0

IsStartLine(line) == line = StartLine
IsEndLine(line) == line = EndLine
IsMarker(line) == MarkerNumber(line) # None

\* SectionBody without the search for the start marker: the section runs
\* from the top of the text.
SectionBody_from_top(pdf_text) ==
    LET e == FirstIndex(pdf_text, IsEndLine)
    IN  IF e = 0 THEN pdf_text ELSE SubSeq(pdf_text, 1, e - 1)

\* The properties section: after the start marker when there is one, up to the
\* end marker when there is one.
SectionBody(pdf_text) ==
    LET s == FirstIndex(pdf_text, IsStartLine)
        afterStart == SubSeq(pdf_text, s + 1, Len(pdf_text))
        e == FirstIndex(afterStart, IsEndLine)
    IN  IF e = 0 THEN afterStart ELSE SubSeq(afterStart, 1, e - 1)

RECURSIVE SplitParts(_)
\* _PROPERTY_SPLIT_RE.split without its first part: the sequence of
\* <<num_str, block>> pairs, each block running up to the next marker.
SplitParts(body) ==
    LET m == FirstIndex(body, IsMarker)
        rest == SubSeq(body, m + 1, Len(body))
        n == FirstIndex(rest, IsMarker)
        block == IF n = 0 THEN rest ELSE SubSeq(rest, 1, n - 1)
    IN  IF m = 0 THEN << >>
        ELSE << <<body[m], block>> >>
             \o SplitParts(IF n = 0 THEN << >> ELSE SubSeq(rest, n, Len(rest)))

RECURSIVE PropertiesOf_stopping(_, _, _)
\* The while loop with break in the place of continue: a short block ends it.
PropertiesOf_stopping(parts, sale_date, pdf_url) ==
    IF parts = << >> THEN << >>
    ELSE LET block == parts[1][2]
             reserve == _parse_reserve(block)
         IN  IF TextLen(block) < MinBlockLen THEN << >>
             ELSE << Property(sale_date, MarkerNumber(parts[1][1]), block,
                              _parse_size(block), reserve[1], reserve[2], pdf_url) >>
                  \o PropertiesOf_stopping(Tail(parts), sale_date, pdf_url)

RECURSIVE PropertiesOf(_, _, _)
\* The while loop of parse_pdf_properties over the split parts.
PropertiesOf(parts, sale_date, pdf_url) ==
    IF parts = << >> THEN << >>
    ELSE LET block == parts[1][2]
             reserve == _parse_reserve(block)
             later == PropertiesOf(Tail(parts), sale_date, pdf_url)
         IN  IF TextLen(block) < MinBlockLen THEN later
             ELSE << Property(sale_date, MarkerNumber(parts[1][1]), block,
                              _parse_size(block), reserve[1], reserve[2], pdf_url) >>
                  \o later

\* parse_pdf_properties that returns a record without text for an empty
\* document in the place of the empty list.
parse_pdf_properties_placeholder(pdf_text, sale_date, pdf_url) ==
    IF pdf_text = << >>
    THEN <<Property(sale_date, 0, << >>, None, None, "unknown", pdf_url)>>
    ELSE PropertiesOf(SplitParts(SectionBody(pdf_text)), sale_date, pdf_url)

\* parse_pdf_properties: no record of an empty text, else those of the
\* entries of the section.
parse_pdf_properties(pdf_text, sale_date, pdf_url) ==
    IF pdf_text = << >> THEN << >>
    ELSE PropertiesOf(SplitParts(SectionBody(pdf_text)), sale_date, pdf_url)

\* property_from_db that reads the number from a column the row does not
\* have.
property_from_db_misnamed(row) ==
    Property(row.sale_date, None, row.raw_text, row.size_m2,
             row.reserve_price,
             IF row.reserve_type = "" THEN "unknown" ELSE row.reserve_type,
             row.pdf_url)

\* property_from_db: a Property rebuilt from a row of the properties table.
property_from_db(row) ==
    Property(row.sale_date, row.property_number, row.raw_text, row.size_m2,
             row.reserve_price,
             IF row.reserve_type = "" THEN "unknown" ELSE row.reserve_type,
             row.pdf_url)

\* ------------------------------------------------------------------------
\* database/db.py: the tables and their operations
\* ------------------------------------------------------------------------

RECURSIVE OrderPairs(_)
\* The second components of a set of <<key, row>> pairs, in ascending order
\* of the integer keys.
OrderPairs(pairs) ==
    IF pairs = {} THEN << >>
    ELSE LET first == CHOOSE x \in pairs : \A y \in pairs : x[1] <= y[1]
         IN  <<first[2]>> \o OrderPairs(pairs \ {first})

\* The rows of a table as a sequence, in ascending order of an integer key.
OrderBy(rows, Key(_)) == OrderPairs({<<Key(x), x>> : x \in rows})

\* init_db with DROP TABLE before CREATE TABLE: the rows are lost.
init_db_recreate(table) == {}

\* init_db: CREATE TABLE IF NOT EXISTS keeps the rows of an existing table.
init_db(table) == table

\* upsert_user: INSERT ... ON CONFLICT(telegram_id) DO UPDATE SET chat_id.
upsert_user(table, telegram_id, chat_id) ==
    {u \in table : u.telegram_id # telegram_id}
        \cup {[telegram_id |-> telegram_id, chat_id |-> chat_id]}

UserKey(u) == u.telegram_id

\* get_all_users: SELECT * FROM users, in rowid order.
get_all_users(table) == OrderBy(table, UserKey)

\* float("nan"), which float() reads from the argument "nan".
NaN == -2

\* a > b on floats: false when either side is NaN.
float_gt(a, b) == a # NaN /\ b # NaN /\ a > b

\* A float bound as an SQL parameter: SQLite stores NaN as NULL.
BoundReal(value) == IF value = NaN THEN None ELSE value

\* COALESCE(new, old) of SQL, on a number column and on a text column.
Coalesce(new, old) == IF new # None THEN new ELSE old
CoalesceText(new, old) == IF new # NullText THEN new ELSE old

\* json.dumps of a list of strings and json.loads of the result.
json_dumps(list) == <<"[">> \o list \o <<"]">>
json_loads(text) == SubSeq(text, 2, Len(text) - 1)

\* upsert_preference that looks for an active row of the user only.
upsert_preference_active(table, telegram_id, min_price, max_price, location_keywords) ==
    LET keywords_json == IF location_keywords # NoList
                         THEN json_dumps(location_keywords) ELSE NullText
    IN  IF \E row \in table : row.telegram_id = telegram_id /\ row.active = 1
        THEN {IF row.telegram_id = telegram_id
              THEN [row EXCEPT !.min_price = Coalesce(BoundReal(min_price), @),
                               !.max_price = Coalesce(BoundReal(max_price), @),
                               !.location_keywords = CoalesceText(keywords_json, @),
                               !.active = 1]
              ELSE row : row \in table}
        ELSE table \cup {[id |-> Cardinality(table) + 1, telegram_id |-> telegram_id,
                          min_price |-> BoundReal(min_price),
                          max_price |-> BoundReal(max_price),
                          location_keywords |-> keywords_json, active |-> 1]}

\* upsert_preference: update every row of the user when one exists, insert a
\* row with the next autoincrement id otherwise.
upsert_preference(table, telegram_id, min_price, max_price, location_keywords) ==
    LET keywords_json == IF location_keywords # NoList
                         THEN json_dumps(location_keywords) ELSE NullText
    IN  IF \E row \in table : row.telegram_id = telegram_id
        THEN {IF row.telegram_id = telegram_id
              THEN [row EXCEPT !.min_price = Coalesce(BoundReal(min_price), @),
                               !.max_price = Coalesce(BoundReal(max_price), @),
                               !.location_keywords = CoalesceText(keywords_json, @),
                               !.active = 1]
              ELSE row : row \in table}
        ELSE table \cup {[id |-> Cardinality(table) + 1, telegram_id |-> telegram_id,
                          min_price |-> BoundReal(min_price),
                          max_price |-> BoundReal(max_price),
                          location_keywords |-> keywords_json, active |-> 1]}

PreferenceKey(row) == row.id

\* dict(row) with a non-empty location_keywords column replaced by its
\* json.loads.
LoadedPreference(row) ==
    IF row.location_keywords # NullText
    THEN [row EXCEPT !.location_keywords = json_loads(@)]
    ELSE row

\* get_preference: the user's active row, NoPreference without one.
get_preference(table, telegram_id) ==
    LET rows == {row \in table : row.telegram_id = telegram_id /\ row.active = 1}
    IN  IF rows = {} THEN NoPreference
        ELSE LoadedPreference(OrderBy(rows, PreferenceKey)[1])

\* get_all_active_preferences: SELECT * FROM preferences WHERE active = 1.
get_all_active_preferences(table) ==
    LET rows == OrderBy({row \in table : row.active = 1}, PreferenceKey)
    IN  [i \in 1..Len(rows) |-> LoadedPreference(rows[i])]

\* clear_preference: UPDATE preferences SET active = 0 WHERE telegram_id = ?.
clear_preference(table, telegram_id) ==
    {IF row.telegram_id = telegram_id THEN [row EXCEPT !.active = 0] ELSE row :
        row \in table}

\* The row upsert_property binds for a property.
PropertyRow(prop, now) ==
    [property_hash |-> property_hash(prop), sale_date |-> prop.sale_date,
     property_number |-> prop.number, raw_text |-> prop.raw_text,
     size_m2 |-> prop.size_m2, reserve_price |-> prop.reserve_price,
     reserve_type |-> prop.reserve_type, pdf_url |-> prop.pdf_url,
     first_seen_at |-> now]

\* upsert_property's return value: cur.rowcount > 0.
upsert_property_inserted(table, prop) ==
    ~\E row \in table : row.property_hash = property_hash(prop)

\* upsert_property with INSERT OR REPLACE: the row of the hash is rewritten.
upsert_property_replace(table, prop, now) ==
    {row \in table : row.property_hash # property_hash(prop)}
        \cup {PropertyRow(prop, now)}

\* upsert_property: INSERT OR IGNORE INTO properties.
upsert_property(table, prop, now) ==
    IF \E row \in table : row.property_hash = property_hash(prop)
    THEN table
    ELSE table \cup {PropertyRow(prop, now)}

\* ORDER BY sale_date, property_number.
PropertyKey(row) == row.sale_date * 100 + row.property_number

\* get_upcoming_properties with sale_date > ? in its WHERE clause.
get_upcoming_properties_strict(table, today_iso) ==
    OrderBy({row \in table : row.sale_date > today_iso}, PropertyKey)

\* get_upcoming_properties: the rows with sale_date >= today, ordered.
get_upcoming_properties(table, today_iso) ==
    OrderBy({row \in table : row.sale_date >= today_iso}, PropertyKey)

\* get_sale_dates_in_db: SELECT DISTINCT sale_date ... WHERE sale_date >= ?.
get_sale_dates_in_db(table, today_iso) ==
    {row.sale_date : row \in {x \in table : x.sale_date >= today_iso}}

\* is_listing_seen that finds no row.
is_listing_seen_never(table, listing_hash) == FALSE

\* is_listing_seen.
is_listing_seen(table, listing_hash) ==
    \E row \in table : row.listing_hash = listing_hash

\* mark_listing_seen whose insert is not committed.
mark_listing_seen_lost(table, listing_hash, now) == table

\* mark_listing_seen with INSERT OR REPLACE: the entry of the hash is rewritten.
mark_listing_seen_replace(table, listing_hash, now) ==
    {row \in table : row.listing_hash # listing_hash}
        \cup {[listing_hash |-> listing_hash, first_seen_at |-> now]}

\* mark_listing_seen: INSERT OR IGNORE INTO seen_listings.
mark_listing_seen(table, listing_hash, now) ==
    IF \E row \in table : row.listing_hash = listing_hash
    THEN table
    ELSE table \cup {[listing_hash |-> listing_hash, first_seen_at |-> now]}

\* ------------------------------------------------------------------------
\* scheduler/job_scheduler.py: matching
\* ------------------------------------------------------------------------

\* any(kw.lower() in text_lower for kw in keywords).
AnyKeywordIn(keywords, text) ==
    \E k \in 1..Len(keywords) : \E i \in 1..Len(text) : KeywordIn(keywords[k], text[i])

\* _matches_property with <= and >= in its two price tests.
_matches_property_exclusive(prop, pref) ==
    IF is_opportunity(prop) THEN TRUE
    ELSE IF /\ prop.reserve_price # None
            /\ pref.min_price # None
            /\ prop.reserve_price <= pref.min_price THEN FALSE
    ELSE IF /\ prop.reserve_price # None
            /\ pref.max_price # None
            /\ prop.reserve_price >= pref.max_price THEN FALSE
    ELSE LET keywords == IF pref.location_keywords = NullText
                         THEN << >> ELSE pref.location_keywords
         IN  IF keywords # << >> THEN AnyKeywordIn(keywords, prop.raw_text) ELSE TRUE

\* _matches_property without its two price tests.
_matches_property_unpriced(prop, pref) ==
    LET keywords == IF pref.location_keywords = NullText
                    THEN << >> ELSE pref.location_keywords
    IN  \/ is_opportunity(prop)
        \/ keywords = << >>
        \/ AnyKeywordIn(keywords, prop.raw_text)

\* _matches_property: an opportunity always matches; any other record must
\* pass the price tests that apply and, with keywords set, hold one of them.
_matches_property(prop, pref) ==
    IF is_opportunity(prop) THEN TRUE
    ELSE IF /\ prop.reserve_price # None
            /\ pref.min_price # None
            /\ prop.reserve_price < pref.min_price THEN FALSE
    ELSE IF /\ prop.reserve_price # None
            /\ pref.max_price # None
            /\ prop.reserve_price > pref.max_price THEN FALSE
    ELSE LET keywords == IF pref.location_keywords = NullText
                         THEN << >> ELSE pref.location_keywords
         IN  IF keywords # << >> THEN AnyKeywordIn(keywords, prop.raw_text) ELSE TRUE

\* ------------------------------------------------------------------------
\* scraper/sheroot_scraper.py: what the site serves and what a scrape returns
\* ------------------------------------------------------------------------

DocA ==
    <<"SHERIFF ROODEPOORT", StartLine,
      "1.", LineRoodepoort, LineSize, LineCourt,
      "2.", LineKrugersdorp, LineNCR,
      "3.", LineShort,
      EndLine, "1.", "The sale is subject to the rules of auction">>

DocB == <<StartLine, "1.", LineSandton, LineBank>>

\* The events of the calendar, each with the document its list page links.
SiteEvents ==
    <<[title |-> "Sale A", date |-> 1, doc |-> DocA, url |-> "a.pdf"],
      [title |-> "Sale B", date |-> 2, doc |-> DocB, url |-> "b.pdf"]>>

\* The dict scrape_listings appends for a calendar event.
RawEvent(ev, pdf_text, pdf_url) ==
    [title |-> ev.title, date |-> ev.date, pdf_text |-> pdf_text, pdf_url |-> pdf_url]

RECURSIVE ScrapedEvents_all(_, _, _)
\* The loop over the calendar events without its test of skip_dates: the
\* document of every upcoming event is fetched.
ScrapedEvents_all(events, skip_dates, today) ==
    IF events = << >> THEN {<< >>}
    ELSE LET ev == events[1]
             later == ScrapedEvents_all(Tail(events), skip_dates, today)
             mine == {RawEvent(ev, ev.doc, ev.url), RawEvent(ev, << >>, "")}
         IN  IF ev.date < today THEN later
             ELSE {<<e>> \o l : e \in mine, l \in later}

RECURSIVE ScrapedEvents(_, _, _)
\* The lists the loop over the calendar events can build: a past event is
\* dropped, the document of a date in skip_dates is not fetched, and any
\* other document is downloaded and extracted or, when that fails, empty.
ScrapedEvents(events, skip_dates, today) ==
    IF events = << >> THEN {<< >>}
    ELSE LET ev == events[1]
             later == ScrapedEvents(Tail(events), skip_dates, today)
             mine == IF ev.date \in skip_dates
                     THEN {RawEvent(ev, << >>, "")}
                     ELSE {RawEvent(ev, ev.doc, ev.url), RawEvent(ev, << >>, "")}
         IN  IF ev.date < today THEN later
             ELSE {<<e>> \o l : e \in mine, l \in later}

\* scrape_listings when it returns: the list built from the calendar, or the
\* empty list when the page load times out or no calendar data is captured.
scrape_listings(skip_dates, today) ==
    {<< >>} \cup ScrapedEvents(SiteEvents, skip_dates, today)

\* ------------------------------------------------------------------------
\* State
\* ------------------------------------------------------------------------

VARIABLES
    users,          \* table users
    preferences,    \* table preferences
    properties,     \* table properties (the catalogue)
    seen_listings,  \* table seen_listings (the seen store)
    day,            \* the current date
    run,            \* the local state of each scrape_and_notify task
    cpu,            \* the task that is executing between two awaits, or "none"
    boot,           \* the startup task is created and has not begun
    listing,        \* the /listings handler that awaits a scrape
    nrun,           \* number of tasks begun so far
    ncmd,           \* number of commands handled so far
    sent,           \* history: the <<hash, telegram_id>> send_notification was called for
    resent,         \* history: those it was called for more than once
    unmatched,      \* history: the hashes a fan-out ended for with nobody notified
    undelivered,    \* history: the pairs send_notification returned False for
    online,         \* scenario of repeated runs: the dates whose document downloads
    before,         \* scenario of repeated runs: the tables as the current run began
    blocked,        \* the chats Telegram refuses to deliver to
    given,          \* function under test: the arguments of the call
    returned        \* function under test: << >> before the call, <<value>> after

vars == <<users, preferences, properties, seen_listings, day, run, cpu, boot,
          listing, ncmd, sent, resent, unmatched, nrun, undelivered, online, before,
          blocked, given, returned>>

\* What no step of the process changes.
fixture == <<blocked, given, returned>>

scenario == <<online, before, fixture>>

tables == <<users, preferences, properties, seen_listings>>

\* A task that has not begun; a task that has ended is this with pc "failed"
\* (scrape_listings raised) or "done" (the job returned after its loop).
IdleRun ==
    [pc |-> "idle", today |-> 0, cached_dates |-> {}, raw_events |-> << >>,
     users |-> << >>, preferences |-> << >>, ei |-> 0, properties |-> << >>,
     ui |-> 0, pi |-> 0, fi |-> 0, notified |-> {}, mine |-> {}, marked |-> {}]

\* The value of before while no scenario of repeated runs is played.
NoTables == [properties |-> {}, seen_listings |-> {}]

IdleListing == [pc |-> "idle", telegram_id |-> 0]

\* The accounts the bot may hold when the process starts: none, or what
\* earlier commands of the two users left in the tables (user 1 has cleared
\* a price range, user 2 has set a keyword).
InitialAccounts ==
    LET both == upsert_user(upsert_user({}, 1, 1), 2, 2)
        cleared == clear_preference(upsert_preference({}, 1, 900000, 1000000, NoList), 1)
    IN  {<<{}, {}>>,
         <<both, upsert_preference(cleared, 2, None, None, <<"Sandton">>)>>}

Init ==
    /\ \E accounts \in InitialAccounts :
          /\ users = init_db(accounts[1])
          /\ preferences = init_db(accounts[2])
    /\ properties = init_db({})
    /\ seen_listings = init_db({})
    /\ day = 1
    /\ run = [r \in RunIds |-> IdleRun]
    /\ cpu = "none"
    /\ boot = TRUE
    /\ listing = IdleListing
    /\ ncmd = 0
    /\ nrun = 0
    /\ sent = {}
    /\ resent = {}
    /\ unmatched = {}
    /\ undelivered = {}
    /\ online = {}
    /\ before = NoTables
    /\ blocked = {}
    /\ given = << >>
    /\ returned = << >>

\* ------------------------------------------------------------------------
\* scheduler/job_scheduler.py: scrape_and_notify, one action per stretch of
\* code between two places where the task can be suspended or killed
\* ------------------------------------------------------------------------

\* The property the task is working on and its hash.
CurrentProperty(r) == run[r].properties[run[r].pi]
CurrentHash(r) == property_hash(CurrentProperty(r))

\* The sequence the fan-out iterates: the users when there is no active
\* preference at all, the active preferences otherwise.
FanoutItems(r) ==
    IF run[r].preferences = << >> THEN run[r].users ELSE run[r].preferences

\* users.get(telegram_id) finds a user.
HasUser(r, telegram_id) ==
    \E i \in 1..Len(run[r].users) : run[r].users[i].telegram_id = telegram_id

\* user["chat_id"] of the user the fan-out sends to.
ChatId(r, telegram_id) ==
    LET i == CHOOSE k \in 1..Len(run[r].users) : run[r].users[k].telegram_id = telegram_id
    IN  run[r].users[i].chat_id

\* bot/notifications.py, send_notification: True when bot.send_message
\* returns, False when it raises TelegramError.
send_notification(refusing, chat_id) == chat_id \notin refusing

\* SendsTo without the call of _matches_property.
SendsTo_unfiltered(r) ==
    LET item == FanoutItems(r)[run[r].fi]
    IN  \/ run[r].preferences = << >>
        \/ /\ HasUser(r, item.telegram_id)
           /\ item.telegram_id \notin run[r].notified

\* The fan-out sends for its current item.
SendsTo(r) ==
    LET item == FanoutItems(r)[run[r].fi]
    IN  \/ run[r].preferences = << >>
        \/ /\ _matches_property(CurrentProperty(r), item)
           /\ HasUser(r, item.telegram_id)
           /\ item.telegram_id \notin run[r].notified

\* The task is between its first and its last statement.
Active(r) == run[r].pc \notin {"idle", "failed", "done"}

\* BeginRun that deletes the rows of past sale dates as it reads the cache.
BeginRun_purging(r) ==
    /\ cpu = "none"
    /\ ~Active(r)
    /\ r = "startup" => boot
    /\ nrun < MaxRuns
    /\ nrun' = nrun + 1
    /\ properties' = {row \in properties : row.sale_date >= day}
    /\ run' = [run EXCEPT ![r] =
                 [IdleRun EXCEPT !.pc = "fetch", !.today = day,
                                 !.cached_dates = get_sale_dates_in_db(properties, day)]]
    /\ boot' = IF r = "startup" THEN FALSE ELSE boot
    /\ UNCHANGED <<users, preferences, seen_listings, day, cpu, listing, ncmd, sent,
                   resent, unmatched, undelivered, fixture>>

\* A task begins: a run of the scheduler's job (one instance at a time) or
\* the task post_init creates.  It reads the date and the cached dates and
\* awaits scrape_listings.
BeginRun(r) ==
    /\ cpu = "none"
    /\ ~Active(r)
    /\ r = "startup" => boot
    /\ nrun < MaxRuns
    /\ nrun' = nrun + 1
    /\ run' = [run EXCEPT ![r] =
                 [IdleRun EXCEPT !.pc = "fetch", !.today = day,
                                 !.cached_dates = get_sale_dates_in_db(properties, day)]]
    /\ boot' = IF r = "startup" THEN FALSE ELSE boot
    /\ UNCHANGED <<tables, day, cpu, listing, ncmd, sent, resent, unmatched,
                   undelivered, fixture>>

StartRun(r) == BeginRun(r) /\ UNCHANGED scenario

\* scrape_listings raises: the job logs and returns.
FetchFail(r) ==
    /\ cpu = "none"
    /\ run[r].pc = "fetch"
    /\ run' = [run EXCEPT ![r] = [IdleRun EXCEPT !.pc = "failed"]]
    /\ UNCHANGED <<scenario, undelivered, nrun, unmatched, tables, day, cpu, boot, listing,
                   ncmd, sent, resent>>

\* scrape_listings returns raw_events: the job reads the users and the active
\* preferences and enters the loop over the events.
ContinueRun(r, raw_events) ==
    /\ cpu = "none"
    /\ run[r].pc = "fetch"
    /\ run' = [run EXCEPT ![r].pc = "event",
                          ![r].raw_events = raw_events,
                          ![r].users = get_all_users(users),
                          ![r].preferences = get_all_active_preferences(preferences),
                          ![r].ei = 1]
    /\ cpu' = r
    /\ UNCHANGED <<scenario, undelivered, nrun, unmatched, tables, day, boot, listing,
                   ncmd, sent, resent>>

FetchOk(r) ==
    \E raw_events \in scrape_listings(run[r].cached_dates, day) : ContinueRun(r, raw_events)

\* Top of the loop over the events: the job ends after the last event; the
\* properties of a cached date are loaded from the table, those of any other
\* date are parsed from the document.
EventStep(r) ==
    /\ cpu = r
    /\ run[r].pc = "event"
    /\ IF run[r].ei > Len(run[r].raw_events)
       THEN /\ run' = [run EXCEPT ![r] = [IdleRun EXCEPT !.pc = "done"]]
            /\ cpu' = "none"
       ELSE LET event == run[r].raw_events[run[r].ei]
                cached_rows == SelectSeq(get_upcoming_properties(properties, run[r].today),
                                         LAMBDA row : row.sale_date = event.date)
            IN  /\ IF event.date \in run[r].cached_dates
                   THEN run' = [run EXCEPT
                                  ![r].properties =
                                      [i \in 1..Len(cached_rows) |->
                                          property_from_db(cached_rows[i])],
                                  ![r].pi = 1,
                                  ![r].pc = "prop"]
                   ELSE run' = [run EXCEPT
                                  ![r].properties =
                                      parse_pdf_properties(event.pdf_text, event.date,
                                                           event.pdf_url),
                                  ![r].ui = 1,
                                  ![r].pc = "upsert"]
                /\ cpu' = cpu
    /\ UNCHANGED <<scenario, undelivered, nrun, unmatched, tables, day, boot, listing,
                   ncmd, sent, resent>>

\* UpsertStep that leaves for the notifications after its first insert.
UpsertStep_first_only(r) ==
    /\ cpu = r
    /\ run[r].pc = "upsert"
    /\ IF run[r].ui > Len(run[r].properties)
       THEN /\ run' = [run EXCEPT ![r].pi = 1, ![r].pc = "prop"]
            /\ properties' = properties
       ELSE /\ properties' = upsert_property(properties, run[r].properties[run[r].ui], day)
            /\ run' = [run EXCEPT ![r].ui = @ + 1, ![r].pi = 1, ![r].pc = "prop"]
    /\ UNCHANGED <<scenario, undelivered, nrun, unmatched, users, preferences,
                   seen_listings, day, cpu, boot, listing, ncmd,
                   sent, resent>>

\* for prop in properties: db.upsert_property(prop), one transaction each.
UpsertStep(r) ==
    /\ cpu = r
    /\ run[r].pc = "upsert"
    /\ IF run[r].ui > Len(run[r].properties)
       THEN /\ run' = [run EXCEPT ![r].pi = 1, ![r].pc = "prop"]
            /\ properties' = properties
       ELSE /\ properties' = upsert_property(properties, run[r].properties[run[r].ui], day)
            /\ run' = [run EXCEPT ![r].ui = @ + 1]
    /\ UNCHANGED <<scenario, undelivered, nrun, unmatched, users, preferences,
                   seen_listings, day, cpu, boot, listing, ncmd,
                   sent, resent>>

\* Top of the loop over the properties of the event: a seen property is
\* skipped, any other starts a fan-out with an empty notified set.
PropStep(r) ==
    /\ cpu = r
    /\ run[r].pc = "prop"
    /\ IF run[r].pi > Len(run[r].properties)
       THEN run' = [run EXCEPT ![r].ei = @ + 1, ![r].pc = "event"]
       ELSE IF is_listing_seen(seen_listings, CurrentHash(r))
       THEN run' = [run EXCEPT ![r].pi = @ + 1]
       ELSE run' = [run EXCEPT ![r].notified = {}, ![r].fi = 1, ![r].pc = "fanout"]
    /\ UNCHANGED <<scenario, undelivered, nrun, unmatched, tables, day, cpu, boot, listing,
                   ncmd, sent, resent>>

\* FanoutStep with notified.add outside the test: a passed-over subscriber
\* is noted as notified.
FanoutStep_noting(r) ==
    /\ cpu = r
    /\ run[r].pc = "fanout"
    /\ IF run[r].fi > Len(FanoutItems(r))
       THEN /\ run' = [run EXCEPT ![r].pc = "mark"]
            /\ cpu' = cpu
       ELSE IF SendsTo(r)
       THEN /\ run' = [run EXCEPT ![r].pc = "send"]
            /\ cpu' = "none"
       ELSE /\ run' = [run EXCEPT ![r].fi = @ + 1,
                                  ![r].notified =
                                      @ \cup {FanoutItems(r)[run[r].fi].telegram_id}]
            /\ cpu' = cpu
    /\ UNCHANGED <<scenario, undelivered, nrun, unmatched, tables, day, boot, listing,
                   ncmd, sent, resent>>

\* One iteration of the fan-out loop up to its await of send_notification.
FanoutStep(r) ==
    /\ cpu = r
    /\ run[r].pc = "fanout"
    /\ IF run[r].fi > Len(FanoutItems(r))
       THEN /\ run' = [run EXCEPT ![r].pc = "mark"]
            /\ cpu' = cpu
       ELSE IF SendsTo(r)
       THEN /\ run' = [run EXCEPT ![r].pc = "send"]
            /\ cpu' = "none"
       ELSE /\ run' = [run EXCEPT ![r].fi = @ + 1]
            /\ cpu' = cpu
    /\ UNCHANGED <<scenario, undelivered, nrun, unmatched, tables, day, boot, listing,
                   ncmd, sent, resent>>

\* Send that marks the hash seen as soon as one notification is out.
Send_marking(r) ==
    /\ cpu = "none"
    /\ run[r].pc = "send"
    /\ LET target == FanoutItems(r)[run[r].fi].telegram_id
           pair == <<CurrentHash(r), target>>
       IN  /\ sent' = sent \cup {pair}
           /\ resent' = IF pair \in sent THEN resent \cup {pair} ELSE resent
           /\ undelivered' = IF send_notification(blocked, ChatId(r, target))
                             THEN undelivered ELSE undelivered \cup {pair}
           /\ seen_listings' = mark_listing_seen(seen_listings, CurrentHash(r), day)
           /\ run' = [run EXCEPT ![r].notified = @ \cup {target},
                                 ![r].mine = @ \cup {pair},
                                 ![r].marked = @ \cup {CurrentHash(r)},
                                 ![r].fi = @ + 1,
                                 ![r].pc = "fanout"]
    /\ cpu' = r
    /\ UNCHANGED <<scenario, nrun, unmatched, users, preferences, properties, day, boot,
                   listing, ncmd>>

\* Send in which a refused delivery raises out of the job: the task ends.
Send_raising(r) ==
    /\ cpu = "none"
    /\ run[r].pc = "send"
    /\ LET target == FanoutItems(r)[run[r].fi].telegram_id
           pair == <<CurrentHash(r), target>>
           delivered == send_notification(blocked, ChatId(r, target))
       IN  /\ sent' = sent \cup {pair}
           /\ resent' = IF pair \in sent THEN resent \cup {pair} ELSE resent
           /\ undelivered' = IF delivered THEN undelivered ELSE undelivered \cup {pair}
           /\ run' = IF delivered
                     THEN [run EXCEPT ![r].notified = @ \cup {target},
                                      ![r].mine = @ \cup {pair},
                                      ![r].fi = @ + 1,
                                      ![r].pc = "fanout"]
                     ELSE [run EXCEPT ![r].mine = @ \cup {pair}, ![r].pc = "failed"]
           /\ cpu' = IF delivered THEN r ELSE "none"
    /\ UNCHANGED <<scenario, nrun, unmatched, tables, day, boot, listing, ncmd>>

\* await send_notification(bot, user["chat_id"], prop) returns True or False,
\* the value is not read, and the user is added to notified.
Send(r) ==
    /\ cpu = "none"
    /\ run[r].pc = "send"
    /\ LET target == FanoutItems(r)[run[r].fi].telegram_id
           pair == <<CurrentHash(r), target>>
           delivered == send_notification(blocked, ChatId(r, target))
       IN  /\ sent' = sent \cup {pair}
           /\ resent' = IF pair \in sent THEN resent \cup {pair} ELSE resent
           /\ undelivered' = IF delivered THEN undelivered ELSE undelivered \cup {pair}
           /\ run' = [run EXCEPT ![r].notified = @ \cup {target},
                                 ![r].mine = @ \cup {pair},
                                 ![r].fi = @ + 1,
                                 ![r].pc = "fanout"]
    /\ cpu' = r
    /\ UNCHANGED <<scenario, nrun, unmatched, tables, day, boot, listing, ncmd>>

\* MarkStep without the test of notified: every evaluated hash is marked.
MarkStep_always(r) ==
    /\ cpu = r
    /\ run[r].pc = "mark"
    /\ seen_listings' = mark_listing_seen(seen_listings, CurrentHash(r), day)
    /\ run' = [run EXCEPT ![r].marked = @ \cup {CurrentHash(r)},
                          ![r].pi = @ + 1, ![r].pc = "prop"]
    /\ UNCHANGED <<scenario, undelivered, nrun, unmatched, users, preferences, properties,
                   day, cpu,
                   boot, listing, ncmd, sent, resent>>

\* MarkStep without its call of db.mark_listing_seen.
MarkStep_unmarked(r) ==
    /\ cpu = r
    /\ run[r].pc = "mark"
    /\ seen_listings' = seen_listings
    /\ run' = [run EXCEPT ![r].pi = @ + 1, ![r].pc = "prop"]
    /\ unmatched' = IF run[r].notified # {} THEN unmatched
                    ELSE unmatched \cup {CurrentHash(r)}
    /\ UNCHANGED <<scenario, undelivered, nrun, users, preferences, properties, day, cpu, boot,
                   listing, ncmd, sent, resent>>

\* if notified: db.mark_listing_seen(h).
MarkStep(r) ==
    /\ cpu = r
    /\ run[r].pc = "mark"
    /\ IF run[r].notified # {}
       THEN /\ seen_listings' = mark_listing_seen(seen_listings, CurrentHash(r), day)
            /\ run' = [run EXCEPT ![r].marked = @ \cup {CurrentHash(r)},
                                  ![r].pi = @ + 1, ![r].pc = "prop"]
            /\ unmatched' = unmatched
       ELSE /\ seen_listings' = seen_listings
            /\ run' = [run EXCEPT ![r].pi = @ + 1, ![r].pc = "prop"]
            /\ unmatched' = unmatched \cup {CurrentHash(r)}
    /\ UNCHANGED <<scenario, undelivered, nrun, users, preferences, properties, day, cpu, boot,
                   listing, ncmd, sent, resent>>

\* ------------------------------------------------------------------------
\* bot/telegram_bot.py: the command handlers.  The application handles one
\* update at a time, so no handler begins while /listings awaits its scrape.
\* ------------------------------------------------------------------------

\* The arguments users give to /setprice and /setlocation.
PriceArgs == {<<500000, 1000000>>, <<900000, 1000000>>, <<1000000, 500000>>,
              <<NaN, 500000>>}
LocationArgs == {<<"rood">>, <<"Sandton">>}

CanHandle ==
    /\ cpu = "none"
    /\ listing.pc = "idle"
    /\ ncmd < MaxCmds

cmd_start(telegram_id) ==
    /\ CanHandle
    /\ users' = upsert_user(users, telegram_id, telegram_id)
    /\ ncmd' = ncmd + 1
    /\ UNCHANGED <<scenario, undelivered, nrun, unmatched, preferences, properties,
                   seen_listings, day, run, cpu, boot,
                   listing, sent, resent>>

cmd_setprice(telegram_id, args) ==
    /\ CanHandle
    /\ IF float_gt(args[1], args[2])
       THEN UNCHANGED <<users, preferences>>
       ELSE /\ users' = upsert_user(users, telegram_id, telegram_id)
            /\ preferences' = upsert_preference(preferences, telegram_id,
                                                args[1], args[2], NoList)
    /\ ncmd' = ncmd + 1
    /\ UNCHANGED <<scenario, undelivered, nrun, unmatched, properties, seen_listings, day,
                   run, cpu, boot, listing, sent, resent>>

cmd_setlocation(telegram_id, keywords) ==
    /\ CanHandle
    /\ users' = upsert_user(users, telegram_id, telegram_id)
    /\ preferences' = upsert_preference(preferences, telegram_id, None, None, keywords)
    /\ ncmd' = ncmd + 1
    /\ UNCHANGED <<scenario, undelivered, nrun, unmatched, properties, seen_listings, day,
                   run, cpu, boot, listing, sent, resent>>

cmd_clearpreferences(telegram_id) ==
    /\ CanHandle
    /\ preferences' = clear_preference(preferences, telegram_id)
    /\ ncmd' = ncmd + 1
    /\ UNCHANGED <<scenario, undelivered, nrun, unmatched, users, properties,
                   seen_listings, day, run, cpu, boot, listing,
                   sent, resent>>

\* /listings: with rows in the cache it replies from them; without, it
\* awaits a scrape of its own.
cmd_listings(telegram_id) ==
    /\ CanHandle
    /\ listing' = IF get_upcoming_properties(properties, day) # << >>
                  THEN listing
                  ELSE [pc |-> "fetch", telegram_id |-> telegram_id]
    /\ ncmd' = ncmd + 1
    /\ UNCHANGED <<scenario, undelivered, nrun, unmatched, tables, day, run, cpu, boot,
                   sent, resent>>

RECURSIVE UpsertAll(_, _, _)
\* db.upsert_property for each property of a list, in order.
UpsertAll(table, props, now) ==
    IF props = << >> THEN table
    ELSE UpsertAll(upsert_property(table, Head(props), now), Tail(props), now)

RECURSIVE CacheEvents(_, _, _)
\* The loop of /listings over the scraped events: parse and upsert each.
CacheEvents(table, raw_events, now) ==
    IF raw_events = << >> THEN table
    ELSE LET event == Head(raw_events)
             props == parse_pdf_properties(event.pdf_text, event.date, event.pdf_url)
         IN  CacheEvents(UpsertAll(table, props, now), Tail(raw_events), now)

\* ListingsScraped that also marks every record it caches as seen.
ListingsScraped_marking ==
    /\ cpu = "none"
    /\ listing.pc = "fetch"
    /\ \E raw_events \in scrape_listings({}, day) :
          /\ properties' = CacheEvents(properties, raw_events, day)
          /\ seen_listings' =
                seen_listings \cup
                    {[listing_hash |-> row.property_hash, first_seen_at |-> day] :
                        row \in CacheEvents(properties, raw_events, day) \ properties}
    /\ listing' = IdleListing
    /\ UNCHANGED <<scenario, undelivered, nrun, unmatched, users, preferences,
                   day, run, cpu, boot, ncmd, sent, resent>>

\* The scrape of /listings returns and the handler caches what it parsed.
ListingsScraped ==
    /\ cpu = "none"
    /\ listing.pc = "fetch"
    /\ \E raw_events \in scrape_listings({}, day) :
          properties' = CacheEvents(properties, raw_events, day)
    /\ listing' = IdleListing
    /\ UNCHANGED <<scenario, undelivered, nrun, unmatched, users, preferences,
                   seen_listings, day, run, cpu, boot, ncmd,
                   sent, resent>>

\* The scrape of /listings raises: the handler replies and returns.
ListingsFailed ==
    /\ cpu = "none"
    /\ listing.pc = "fetch"
    /\ listing' = IdleListing
    /\ UNCHANGED <<scenario, undelivered, nrun, unmatched, tables, day, run, cpu, boot,
                   ncmd, sent, resent>>

\* ------------------------------------------------------------------------
\* main.py: the process
\* ------------------------------------------------------------------------

\* The process ends, at any point of any task, and is started again: main
\* runs init_db and post_init creates the startup task.
Restart ==
    /\ users' = init_db(users)
    /\ preferences' = init_db(preferences)
    /\ properties' = init_db(properties)
    /\ seen_listings' = init_db(seen_listings)
    /\ run' = [r \in RunIds |-> IdleRun]
    /\ cpu' = "none"
    /\ boot' = TRUE
    /\ listing' = IdleListing
    /\ UNCHANGED <<scenario, undelivered, nrun, unmatched, day, ncmd, sent, resent>>

\* Midnight.
Tick ==
    /\ cpu = "none"
    /\ day < MaxDay
    /\ day' = day + 1
    /\ UNCHANGED <<scenario, undelivered, nrun, unmatched, tables, run, cpu, boot, listing,
                   ncmd, sent, resent>>

Next ==
    \/ \E r \in RunIds : StartRun(r)
    \/ \E r \in RunIds : FetchFail(r)
    \/ \E r \in RunIds : FetchOk(r)
    \/ \E r \in RunIds : EventStep(r)
    \/ \E r \in RunIds : UpsertStep(r)
    \/ \E r \in RunIds : PropStep(r)
    \/ \E r \in RunIds : FanoutStep(r)
    \/ \E r \in RunIds : Send(r)
    \/ \E r \in RunIds : MarkStep(r)
    \/ \E t \in TelegramIds : cmd_start(t)
    \/ \E t \in TelegramIds, args \in PriceArgs : cmd_setprice(t, args)
    \/ \E t \in TelegramIds, keywords \in LocationArgs : cmd_setlocation(t, keywords)
    \/ \E t \in TelegramIds : cmd_clearpreferences(t)
    \/ \E t \in TelegramIds : cmd_listings(t)
    \/ ListingsScraped
    \/ ListingsFailed
    \/ Restart
    \/ Tick

Spec == Init /\ [][Next]_vars

\* ------------------------------------------------------------------------
\* The scenario of repeated runs: the scheduler's job runs again and again,
\* each run after the one before has returned, on the same day, with the same
\* users and preferences and with a site whose documents do not change.
\* ------------------------------------------------------------------------

RECURSIVE ScrapedFrom(_, _, _, _)
\* The list scrape_listings builds when exactly the documents of the dates
\* in up download.
ScrapedFrom(events, up, skip_dates, today) ==
    IF events = << >> THEN << >>
    ELSE LET ev == events[1]
             later == ScrapedFrom(Tail(events), up, skip_dates, today)
         IN  IF ev.date < today THEN later
             ELSE IF ev.date \in skip_dates \/ ev.date \notin up
             THEN <<RawEvent(ev, << >>, "")>> \o later
             ELSE <<RawEvent(ev, ev.doc, ev.url)>> \o later

\* A document whose entries are all shorter than a record's block.
DocC == <<StartLine, "1.", LineShort, "2.", LineBank>>

\* The calendar of the scenario: the events of the site, the first sale
\* listed a second time under its date and with its document, and a later
\* sale whose document yields no record.
RepeatEvents ==
    SiteEvents \o <<[title |-> "Sale A, second listing", date |-> SiteEvents[1].date,
                     doc |-> SiteEvents[1].doc, url |-> SiteEvents[1].url],
                    [title |-> "Sale C", date |-> 3, doc |-> DocC, url |-> "c.pdf"]>>

\* The accounts of the scenario: those of InitialAccounts, or two registered
\* users who never set a preference.
RepeatAccounts ==
    InitialAccounts \cup {<<upsert_user(upsert_user({}, 1, 1), 2, 2), {}>>}

InitRepeat ==
    /\ \E accounts \in RepeatAccounts :
          /\ users = init_db(accounts[1])
          /\ preferences = init_db(accounts[2])
    /\ properties = init_db({})
    /\ seen_listings = init_db({})
    /\ day \in 1..MaxDay
    /\ run = [r \in RunIds |-> IdleRun]
    /\ cpu = "none"
    /\ boot = FALSE
    /\ listing = IdleListing
    /\ ncmd = 0
    /\ nrun = 0
    /\ sent = {}
    /\ resent = {}
    /\ unmatched = {}
    /\ undelivered = {}
    /\ online \in SUBSET {RepeatEvents[i].date : i \in 1..Len(RepeatEvents)}
    /\ before = NoTables
    /\ blocked \in SUBSET TelegramIds
    /\ given = << >>
    /\ returned = << >>

\* The job begins again; the tables it finds are remembered.
StartAgain ==
    /\ BeginRun("cron")
    /\ before' = [properties |-> properties, seen_listings |-> seen_listings]
    /\ online' = online

\* Its scrape returns what the unchanged site serves.
FetchAgain ==
    ContinueRun("cron", ScrapedFrom(RepeatEvents, online, run["cron"].cached_dates, day))

NextRepeat ==
    \/ StartAgain
    \/ FetchAgain
    \/ EventStep("cron")
    \/ UpsertStep("cron")
    \/ PropStep("cron")
    \/ FanoutStep("cron")
    \/ Send("cron")
    \/ MarkStep("cron")

SpecRepeat == InitRepeat /\ [][NextRepeat]_vars

\* ------------------------------------------------------------------------
\* The scheduled job under a scheduler that keeps triggering it: the cron
\* job runs and each of its steps is taken in the end, while a user may send
\* /listings at any moment and so fill the catalogue before the job does
\* (its scrape returns the first listings of the calendar).
\* ------------------------------------------------------------------------

CronStep ==
    \/ StartRun("cron")
    \/ FetchAgain
    \/ EventStep("cron")
    \/ UpsertStep("cron")
    \/ PropStep("cron")
    \/ FanoutStep("cron")
    \/ Send("cron")
    \/ MarkStep("cron")

NextLive ==
    \/ CronStep
    \/ \E t \in TelegramIds : cmd_listings(t)
    \/ ListingsScraped
    \/ ListingsFailed

\* The steps of the job other than the top of its loop over the events.
CronStepInEvent ==
    \/ StartRun("cron")
    \/ FetchAgain
    \/ UpsertStep("cron")
    \/ PropStep("cron")
    \/ FanoutStep("cron")
    \/ Send("cron")
    \/ MarkStep("cron")

\* EventStep("cron") can be taken.
EventReady == cpu = "cron" /\ run["cron"].pc = "event"

\* Weak fairness of the job's steps; that of EventStep is written with its
\* enabling condition spelled out.
SpecLive ==
    /\ InitRepeat
    /\ [][NextLive]_vars
    /\ WF_vars(CronStepInEvent)
    /\ ([]<>(~EventReady) \/ []<><<EventStep("cron")>>_vars)

\* ------------------------------------------------------------------------
\* Functions under test: a call of one function on arguments drawn from a
\* bounded set, while the process itself is at rest.
\* ------------------------------------------------------------------------

\* Everything but the arguments and the returned value of the call, and the
\* same without the catalogue.
backstage == <<users, preferences, seen_listings, day, run, cpu, boot, listing,
               ncmd, nrun, sent, resent, unmatched, undelivered, online, before,
               blocked>>

process == <<properties, backstage>>

\* The process before main() has done anything.
AtRest ==
    /\ users = {}
    /\ preferences = {}
    /\ properties = {}
    /\ seen_listings = {}
    /\ day = 1
    /\ run = [r \in RunIds |-> IdleRun]
    /\ cpu = "none"
    /\ boot = FALSE
    /\ listing = IdleListing
    /\ ncmd = 0
    /\ nrun = 0
    /\ sent = {}
    /\ resent = {}
    /\ unmatched = {}
    /\ undelivered = {}
    /\ online = {}
    /\ before = NoTables
    /\ blocked = {}

\* Reserve prices around the bounds a preference may set.
TestedPrices == {None, 499999, 500000, 500001, 999999, 1000000, 1000001}

\* Properties handed to _matches_property: every reserve kind with every
\* price, on two texts.
TestedProperties ==
    {Property(1, 1, text, None, price, kind, "a.pdf") :
        text \in {<<LineSandton>>, <<LineRoodepoort, LineSize>>},
        price \in TestedPrices,
        kind \in {"court", "bank", "none", "unknown"}}

\* Preferences handed to _matches_property, as get_all_active_preferences
\* loads them.
TestedPreferences ==
    {[id |-> 1, telegram_id |-> 1, min_price |-> lo, max_price |-> hi,
      location_keywords |-> kws, active |-> 1] :
        lo \in {None, 500000, 1000000},
        hi \in {None, 500000, 1000000},
        kws \in {NullText, <<"SANDTON">>, <<"Benoni">>, <<"Benoni", "main road">>}}

InitMatch ==
    /\ AtRest
    /\ given \in [prop : TestedProperties, pref : TestedPreferences]
    /\ returned = << >>

\* _matches_property(prop, pref) is called and returns.
CallMatches ==
    /\ returned = << >>
    /\ returned' = <<_matches_property(given.prop, given.pref)>>
    /\ UNCHANGED <<process, given>>

NextMatch == CallMatches

SpecMatch == InitMatch /\ [][NextMatch]_vars

\* Records handed to property_hash, two at a time: texts that differ before
\* and after their 80th character, and every other field in two values.
TestedRecords ==
    {Property(date, number, text, size, reserve[1], reserve[2], url) :
        date \in {1, 2},
        number \in {1, 2},
        text \in {<<LineRoodepoort, LineSize>>, <<LineRoodepoort, LineCourt>>,
                  <<LineSandton, LineBank>>, <<LineSandton>>},
        size \in {None, 450},
        reserve \in {<<None, "bank">>, <<850000, "court">>},
        url \in {"a.pdf", "b.pdf"}}

InitHash ==
    /\ AtRest
    /\ given \in [a : TestedRecords, b : TestedRecords]
    /\ returned = << >>

\* property_hash() is called on both records.
CallHash ==
    /\ returned = << >>
    /\ returned' = <<property_hash(given.a), property_hash(given.b)>>
    /\ UNCHANGED <<process, given>>

NextHash == CallHash

SpecHash == InitHash /\ [][NextHash]_vars

\* Lines of the documents handed to parse_pdf_properties: two markers, an
\* address, the three reserve lines and the end of the section.
TestedLines == {"1.", "2.", LineKrugersdorp, LineCourt, LineNCR, LineBank, EndLine}

\* Every document of at most MaxLines of these lines.
TestedDocuments ==
    UNION {[1..n -> TestedLines] : n \in 1..MaxLines}

InitParse ==
    /\ AtRest
    /\ given \in [pdf_text : TestedDocuments, sale_date : {1}, pdf_url : {"a.pdf"}]
    /\ returned = << >>

\* parse_pdf_properties(pdf_text, sale_date, pdf_url) is called and returns.
CallParse ==
    /\ returned = << >>
    /\ returned' = <<parse_pdf_properties(given.pdf_text, given.sale_date,
                                          given.pdf_url)>>
    /\ UNCHANGED <<process, given>>

\* for prop in properties: db.upsert_property(prop), on an empty catalogue.
StoreParsed ==
    /\ returned # << >>
    /\ returned[1] # << >>
    /\ properties = {}
    /\ properties' = UpsertAll(properties, returned[1], day)
    /\ UNCHANGED <<backstage, given, returned>>

\* [property_from_db(r) for r in db.get_upcoming_properties(today)].
LoadCached ==
    /\ properties # {}
    /\ LET rows == get_upcoming_properties(properties, day)
       IN  returned' = <<[i \in 1..Len(rows) |-> property_from_db(rows[i])]>>
    /\ UNCHANGED <<process, given>>

NextParse ==
    \/ CallParse
    \/ StoreParsed
    \/ LoadCached

SpecParse == InitParse /\ [][NextParse]_vars

\* Documents of whole entries: before the section nothing, the start marker,
\* or an entry and the start marker; in it at most MaxEntryLines lines of an
\* entry numbered 0 or 3; after it nothing, the end marker, or the end
\* marker and an entry.
MaxEntryLines == 4

EntryLines == {"0.", "3.", LineRoodepoort, LineSize, LineCourt}

EntryDocuments ==
    {head \o body \o tail :
        head \in {<< >>, <<StartLine>>, <<"3.", LineRoodepoort, StartLine>>},
        body \in {<< >>} \cup UNION {[1..n -> EntryLines] : n \in 1..MaxEntryLines},
        tail \in {<< >>, <<EndLine>>, <<EndLine, "3.", LineRoodepoort>>}}

\* The preferences a parsed record is matched against: a price range with a
\* keyword, and a higher price range alone.
EntryPreferences ==
    {[id |-> 1, telegram_id |-> 1, min_price |-> 500000, max_price |-> 1000000,
      location_keywords |-> <<"Roodepoort">>, active |-> 1],
     [id |-> 2, telegram_id |-> 2, min_price |-> 900000, max_price |-> 1000000,
      location_keywords |-> NullText, active |-> 1]}

InitEntry ==
    /\ AtRest
    /\ given \in [pdf_text : EntryDocuments, sale_date : {1}, pdf_url : {"a.pdf"},
                  pref : EntryPreferences]
    /\ returned = << >>

\* [_matches_property(prop, pref) for prop in properties] on the parsed list.
MatchParsed ==
    /\ Len(returned) = 1
    /\ returned' = <<returned[1],
                     [i \in 1..Len(returned[1]) |->
                         _matches_property(returned[1][i], given.pref)]>>
    /\ UNCHANGED <<process, given>>

NextEntry ==
    \/ CallParse
    \/ MatchParsed

SpecEntry == InitEntry /\ [][NextEntry]_vars

\* The arguments upsert_preference is called with: a price range, keywords,
\* or both left out.
TestedSettings ==
    {<<None, None, NoList>>, <<500000, 1000000, NoList>>, <<900000, 1000000, NoList>>,
     <<None, None, <<"rood">> >>, <<None, None, <<"Sandton">> >>}

InitPrefs ==
    /\ AtRest
    /\ given = << >>
    /\ returned = << >>

\* db.upsert_preference(telegram_id, min_price, max_price, location_keywords).
CallUpsertPreference ==
    /\ \E t \in TelegramIds, s \in TestedSettings :
          preferences' = upsert_preference(preferences, t, s[1], s[2], s[3])
    /\ UNCHANGED <<users, properties, seen_listings, day, run, cpu, boot, listing, ncmd,
                   nrun, sent, resent, unmatched, undelivered, scenario>>

\* db.clear_preference(telegram_id).
CallClearPreference ==
    /\ \E t \in TelegramIds : preferences' = clear_preference(preferences, t)
    /\ UNCHANGED <<users, properties, seen_listings, day, run, cpu, boot, listing, ncmd,
                   nrun, sent, resent, unmatched, undelivered, scenario>>

NextPrefs ==
    \/ CallUpsertPreference
    \/ CallClearPreference

SpecPrefs == InitPrefs /\ [][NextPrefs]_vars

\* ------------------------------------------------------------------------
\* Notions the properties below are stated with
\* ------------------------------------------------------------------------

SeenHashes == {row.listing_hash : row \in seen_listings}
CatalogueHashes == {row.property_hash : row \in properties}

\* The users a fan-out over (users, preferences) is to notify of a property,
\* stated directly: everybody without any active preference, the registered
\* owners of a matching preference otherwise.
Targets(prop, user_rows, pref_rows) ==
    IF pref_rows = << >>
    THEN {user_rows[i].telegram_id : i \in 1..Len(user_rows)}
    ELSE {pref_rows[i].telegram_id :
            i \in {j \in 1..Len(pref_rows) :
                     /\ _matches_property(prop, pref_rows[j])
                     /\ \E k \in 1..Len(user_rows) :
                           user_rows[k].telegram_id = pref_rows[j].telegram_id}}

\* The task has left its loop over the events and is about to return.
AtEnd(r) == run[r].pc = "event" /\ run[r].ei > Len(run[r].raw_events)

\* The dates of the events the task's scrape returned.
EventDates(r) == {run[r].raw_events[i].date : i \in 1..Len(run[r].raw_events)}

\* ------------------------------------------------------------------------
\* Properties
\* ------------------------------------------------------------------------

\* C1: over any sequence of runs, completed or aborted part-way, no
\* <<property hash, subscriber>> pair is handed to send_notification twice.
C1_AtMostOncePerPair == resent = {}

\* C2: two executions of scrape_and_notify are never active at the same time.
C2_OneRunAtATime == ~(Active("startup") /\ Active("cron"))

\* C3: a run whose scrape fails consists of the step that begins it and the
\* step that ends it, and neither changes the catalogue or the seen store or
\* sends a notification.
C3_FetchFailureMutatesNothing ==
    [][\A r \in RunIds :
          (\/ ~Active(r) /\ run'[r].pc = "fetch"
           \/ run[r].pc = "fetch" /\ run'[r].pc = "failed")
          => /\ properties' = properties
             /\ seen_listings' = seen_listings
             /\ sent' = sent]_vars

\* C3 witness: a run has failed on a later day than a catalogue row and a
\* seen entry were written, and both are still there.
C3_Witness ==
    \E r \in RunIds :
        /\ run[r].pc = "failed"
        /\ \E row \in properties : row.first_seen_at < day
        /\ \E row \in seen_listings : row.first_seen_at < day

\* C4: in the scenario of repeated runs, a run that began on a catalogue
\* left by an earlier run reaches its end with the catalogue as it found it,
\* holding one row per hash, and has sent nothing for a hash that was in the
\* seen store when it began.
C4_SecondRunChangesNothing ==
    (nrun >= 2 /\ AtEnd("cron")) =>
        /\ properties = before.properties
        /\ \A a, b \in properties : a.property_hash = b.property_hash => a = b
        /\ \A pair \in run["cron"].mine :
              pair[1] \notin {row.listing_hash : row \in before.seen_listings}

\* C4 witness: the second run is at its end; it began with rows in the
\* catalogue, some of them seen and some not.
C4_Witness ==
    /\ nrun = 2
    /\ AtEnd("cron")
    /\ before.seen_listings # {}
    /\ \E row \in before.properties :
          row.property_hash \notin {entry.listing_hash : entry \in before.seen_listings}

\* C5: a run marks a hash only after it notified somebody of it, so a
\* property with nobody to notify stays unseen; and a run that reaches its
\* end has handled every catalogue row of a cached date whose event the
\* scrape returned: each user its fan-out targets was sent the row's hash by
\* this run, unless the hash was marked seen by somebody else before.
C5_UnseenUntilNotified ==
    \A r \in RunIds :
        /\ \A h \in run[r].marked : \E pair \in run[r].mine : pair[1] = h
        /\ AtEnd(r) =>
             \A row \in properties :
                 (row.sale_date \in run[r].cached_dates \cap EventDates(r)) =>
                     \A t \in Targets(property_from_db(row), run[r].users,
                                      run[r].preferences) :
                         \/ <<row.property_hash, t>> \in run[r].mine
                         \/ /\ row.property_hash \in SeenHashes
                            /\ row.property_hash \notin run[r].marked

\* C5 witness: a hash that an earlier fan-out ended for with nobody notified
\* (and that was in the catalogue before this run began) has now been sent to
\* the owner of an active preference, by a run that has reached its end.
C5_Witness ==
    \E r \in RunIds : \E row \in properties :
        /\ AtEnd(r)
        /\ run[r].preferences # << >>
        /\ row.sale_date \in run[r].cached_dates
        /\ row.property_hash \in unmatched
        /\ \E t \in TelegramIds : <<row.property_hash, t>> \in run[r].mine

\* C6: while a run is in the fan-out of a property (about to send, or
\* awaiting a send), it has not marked that property's hash.
C6_MarkAfterFanout ==
    \A r \in RunIds :
        run[r].pc \in {"fanout", "send"} => CurrentHash(r) \notin run[r].marked

\* C6 witness: a run has marked a hash after sending it to two users.
C6_Witness ==
    \E r \in RunIds : \E h \in run[r].marked :
        \A t \in TelegramIds : <<h, t>> \in run[r].mine

\* C7: when a run stands between two iterations of its loop over the events,
\* every property it has notified anybody of is in the catalogue and marked
\* seen, and every user its fan-out targets for a property it marked has been
\* sent that property.
C7_EventBoundaryCommitted ==
    \A r \in RunIds :
        run[r].pc = "event" =>
            /\ \A pair \in run[r].mine :
                  /\ pair[1] \in CatalogueHashes
                  /\ pair[1] \in SeenHashes
                  /\ pair[1] \in run[r].marked
            /\ \A row \in properties :
                  row.property_hash \in run[r].marked =>
                      \A t \in Targets(property_from_db(row), run[r].users,
                                       run[r].preferences) :
                          <<row.property_hash, t>> \in run[r].mine

\* C7 witness: a run stands between its first and its second event, having
\* notified somebody of a property of the first.
C7_Witness ==
    \E r \in RunIds :
        /\ run[r].pc = "event"
        /\ run[r].ei = 2
        /\ Len(run[r].raw_events) = 2
        /\ run[r].mine # {}

\* C8: an entry of the seen store is never removed: a hash that is seen
\* before a step is seen after it.
C8_SeenIsPermanent ==
    [][\A row \in seen_listings :
          is_listing_seen(seen_listings', row.listing_hash)]_vars

\* C8 witness: an entry written on an earlier day is still there after the
\* last run, the last command and a restart.
C8_Witness ==
    /\ \E row \in seen_listings : row.first_seen_at < day
    /\ nrun = MaxRuns
    /\ ncmd = MaxCmds
    /\ boot
    /\ \A r \in RunIds : ~Active(r)

\* C9: the seen store holds one entry per hash, and mark_listing_seen for a
\* hash it holds, at any time, leaves it as it is.
C9_MarkSeenIdempotent ==
    /\ \A a, b \in seen_listings : a.listing_hash = b.listing_hash => a = b
    /\ \A row \in seen_listings : \A now \in 1..MaxDay :
          mark_listing_seen(seen_listings, row.listing_hash, now) = seen_listings

\* C9 witness: a run is about to mark a hash that was marked on an earlier
\* day.
C9_Witness ==
    \E r \in RunIds :
        /\ run[r].pc = "mark"
        /\ run[r].notified # {}
        /\ \E row \in seen_listings :
              row.listing_hash = CurrentHash(r) /\ row.first_seen_at < day

\* Properties with the hash of a catalogue row and other values elsewhere.
VariantsOf(row) ==
    {[property_from_db(row) EXCEPT !.pdf_url = url, !.size_m2 = size,
                                   !.reserve_price = price] :
        url \in {row.pdf_url, "other.pdf"},
        size \in {row.size_m2, 99},
        price \in {row.reserve_price, 1}}

\* The catalogue holds one row per hash, and upsert_property of a property
\* whose hash it holds, whatever its other values and the time, returns
\* False and leaves the catalogue as it is.
UpsertIsNoOpOnHeldHash ==
    /\ \A a, b \in properties : a.property_hash = b.property_hash => a = b
    /\ \A row \in properties : \A prop \in VariantsOf(row) : \A now \in 1..MaxDay :
          /\ property_hash(prop) = row.property_hash
          /\ ~upsert_property_inserted(properties, prop)
          /\ upsert_property(properties, prop, now) = properties

\* C10: no step modifies or deletes a row of the catalogue, and
\* upsert_property is insert-if-absent on every catalogue a step produces.
C10_UpsertInsertsIfAbsent ==
    [][/\ properties \subseteq properties'
       /\ properties' # properties => UpsertIsNoOpOnHeldHash']_vars

\* C10 witness: a run is about to upsert a property whose hash is in the
\* catalogue, on a later day than the row was written.
C10_Witness ==
    \E r \in RunIds :
        /\ run[r].pc = "upsert"
        /\ run[r].ui <= Len(run[r].properties)
        /\ \E row \in properties :
              /\ row.property_hash = property_hash(run[r].properties[run[r].ui])
              /\ row.first_seen_at < day

\* The price filter and the keyword filter of the claims, stated on the
\* characters of the text.
PriceWithin(prop, pref) ==
    \/ prop.reserve_price = None
    \/ /\ pref.min_price # None => prop.reserve_price >= pref.min_price
       /\ pref.max_price # None => prop.reserve_price <= pref.max_price

KeywordFound(prop, pref) ==
    \/ Len(pref.location_keywords) = 0
    \/ \E k \in 1..Len(pref.location_keywords) : \E i \in 1..Len(prop.raw_text) :
          Contains(lower(Spelling[prop.raw_text[i]]),
                   lower(Spelling[pref.location_keywords[k]]))

\* C11: a property of reserve kind 'none' or 'bank' matches every
\* preference, whatever its price bounds and keywords.
C11_OpportunityAlwaysMatches ==
    (returned # << >> /\ given.prop.reserve_type \in {"none", "bank"})
        => returned[1] = TRUE

\* C11 witness: a bank-reserve property was accepted by a preference whose
\* maximum is below its price and whose keyword is not in its text.
C11_Witness ==
    /\ returned = <<TRUE>>
    /\ given.prop.reserve_type = "bank"
    /\ given.prop.reserve_price = 1000001
    /\ given.pref.max_price = 1000000
    /\ given.pref.location_keywords = <<"Benoni">>

C13_PriceAndKeyword ==
    (returned # << >> /\ given.prop.reserve_type \in {"court", "unknown"})
        => (returned[1] = TRUE <=>
               PriceWithin(given.prop, given.pref) /\ KeywordFound(given.prop, given.pref))

\* C13 witness: a property without a price was accepted under bounds by a
\* keyword that differs from the text in case only.
C13_Witness ==
    /\ returned = <<TRUE>>
    /\ given.prop.reserve_type = "unknown"
    /\ given.prop.reserve_price = None
    /\ given.pref.min_price = 500000
    /\ given.pref.location_keywords = <<"SANDTON">>

\* C14: when the fan-out of an unseen record has ended, the users it called
\* send_notification for are every registered user if the run found no
\* active preference, and otherwise exactly the registered owners of an
\* active preference that matches the record.
C14_FanoutTargets ==
    \A r \in RunIds :
        /\ run[r].pc \in {"fanout", "send", "mark"} =>
              run[r].notified \subseteq
                  Targets(CurrentProperty(r), run[r].users, run[r].preferences)
        /\ run[r].pc = "mark" =>
              run[r].notified =
                  Targets(CurrentProperty(r), run[r].users, run[r].preferences)

\* C14 witness: a fan-out over active preferences has ended with somebody
\* notified and without the registered owner of an inactive preference.
C14_Witness ==
    \E r \in RunIds : \E row \in preferences :
        /\ run[r].pc = "mark"
        /\ run[r].preferences # << >>
        /\ run[r].notified # {}
        /\ row.active = 0
        /\ HasUser(r, row.telegram_id)
        /\ row.telegram_id \notin run[r].notified

\* C15: send_notification does not return for a user whose preference row
\* is inactive, that is, who has cleared the preferences and not set a price
\* or a location since.
C15_NoSendAfterClear ==
    [][\A r \in RunIds :
          (run[r].pc = "send" /\ run'[r].pc = "fanout") =>
              ~\E row \in preferences :
                  /\ row.telegram_id = FanoutItems(r)[run[r].fi].telegram_id
                  /\ row.active = 0]_vars

\* C16: the run goes on after every call of send_notification, whatever it
\* returned: a hash the run has sent is the hash of the fan-out in progress
\* or is marked seen; a fan-out ends with every target called; and a run
\* that ends has left no catalogue row of its events with a target not
\* called or a hash not marked.
C16_FailureDoesNotBlock ==
    /\ \A pair \in run["cron"].mine :
          \/ pair[1] \in SeenHashes
          \/ /\ run["cron"].pc \in {"fanout", "send", "mark"}
             /\ CurrentHash("cron") = pair[1]
    /\ run["cron"].pc = "mark" =>
          run["cron"].notified =
              Targets(CurrentProperty("cron"), run["cron"].users, run["cron"].preferences)
    /\ AtEnd("cron") =>
          \A row \in properties :
              row.sale_date \in EventDates("cron") =>
                  \A t \in Targets(property_from_db(row), run["cron"].users,
                                   run["cron"].preferences) :
                      /\ <<row.property_hash, t>> \in sent
                      /\ row.property_hash \in SeenHashes

\* C16 witness: a run has ended in which a delivery to one user failed, the
\* same record went to another user afterwards, and a later record was sent.
C16_Witness ==
    /\ AtEnd("cron")
    /\ \E pair \in undelivered \cap run["cron"].mine :
          /\ \E t \in TelegramIds :
                /\ t > pair[2]
                /\ <<pair[1], t>> \in run["cron"].mine \ undelivered
          /\ \E other \in run["cron"].mine : other[1][2] > pair[1][2]
          /\ pair[1] \in run["cron"].marked

RECURSIVE Characters(_)
\* The characters of a text: those of its lines, a newline between two.
Characters(text) ==
    IF text = << >> THEN << >>
    ELSE IF Len(text) = 1 THEN Spelling[text[1]]
    ELSE Spelling[text[1]] \o <<"\n">> \o Characters(Tail(text))

\* The first n characters of a text.
FirstCharacters(text, n) ==
    LET chars == Characters(text)
    IN  IF Len(chars) <= n THEN chars ELSE SubSeq(chars, 1, n)

\* C19: two records with the same sale date, the same number and the same
\* first 80 characters of raw text have the same hash, whatever their source
\* reference, size, reserve price, reserve kind and later characters are.
C19_HashDependsOnKeyOnly ==
    (/\ returned # << >>
     /\ given.a.sale_date = given.b.sale_date
     /\ given.a.number = given.b.number
     /\ FirstCharacters(given.a.raw_text, HashPrefixLen)
            = FirstCharacters(given.b.raw_text, HashPrefixLen))
        => returned[1] = returned[2]

\* C19 witness: two records got one hash that differ in the raw text after
\* the 80th character and in every field outside the key.
C19_Witness ==
    /\ returned # << >>
    /\ returned[1] = returned[2]
    /\ given.a.raw_text # given.b.raw_text
    /\ given.a.pdf_url # given.b.pdf_url
    /\ given.a.size_m2 # given.b.size_m2
    /\ given.a.reserve_price # given.b.reserve_price
    /\ given.a.reserve_type # given.b.reserve_type

\* C17: a record that parse_pdf_properties returned, a row of the catalogue
\* and a record rebuilt by property_from_db carry a reserve price only with
\* the reserve kind 'court'.
C17_PriceOnlyWithCourt ==
    /\ returned # << >> =>
          \A i \in 1..Len(returned[1]) :
              returned[1][i].reserve_price # None => returned[1][i].reserve_type = "court"
    /\ \A row \in properties :
          /\ row.reserve_price # None => row.reserve_type = "court"
          /\ property_from_db(row).reserve_price # None
                => property_from_db(row).reserve_type = "court"

\* C17 witness: a court record with its price and a bank record without one
\* were parsed, stored and loaded again.
C17_Witness ==
    /\ properties # {}
    /\ returned # << >>
    /\ Len(returned[1]) = 2
    /\ \E row \in properties : returned[1][1] = property_from_db(row)
    /\ returned[1][1].reserve_type = "court"
    /\ returned[1][1].reserve_price = 850000
    /\ returned[1][2].reserve_type = "bank"
    /\ returned[1][2].reserve_price = None

\* C18: no two records of one returned list and no two rows of the
\* catalogue have the same sale date and the same number.
C18_NumberUniquePerDate ==
    /\ returned # << >> =>
          \A i, j \in 1..Len(returned[1]) :
              (/\ returned[1][i].sale_date = returned[1][j].sale_date
               /\ returned[1][i].number = returned[1][j].number) => i = j
    /\ \A a, b \in properties :
          (/\ a.sale_date = b.sale_date
           /\ a.property_number = b.property_number) => a = b

\* The section of a document of TestedDocuments, the places of its markers
\* and the block of the marker at a place, read off the lines.
SectionOf(doc) ==
    IF \E i \in 1..Len(doc) : doc[i] = EndLine
    THEN SubSeq(doc, 1, (CHOOSE i \in 1..Len(doc) :
                            doc[i] = EndLine /\ \A j \in 1..(i - 1) : doc[j] # EndLine) - 1)
    ELSE doc

MarkerPlaces(section) ==
    LET AtMarker(i) == section[i] \in {"0.", "1.", "2.", "3."}
    IN  SelectSeq([i \in 1..Len(section) |-> i], AtMarker)

BlockAt(section, m) ==
    LET next == {i \in (m + 1)..Len(section) : section[i] \in {"0.", "1.", "2.", "3."}}
        last == IF next = {} THEN Len(section)
                ELSE (CHOOSE i \in next : \A j \in next : i <= j) - 1
    IN  SubSeq(section, m + 1, last)

\* The <<marker, block>> pairs of the entries whose block has 20 characters or
\* more, in the order of the document.
LongEntries(doc) ==
    LET section == SectionOf(doc)
        IsLong(m) == Len(Characters(BlockAt(section, m))) >= 20
        places == SelectSeq(MarkerPlaces(section), IsLong)
    IN  [k \in 1..Len(places) |-> <<section[places[k]], BlockAt(section, places[k])>>]

\* C20: parse_pdf_properties returns one record for each numbered entry of
\* the section whose block has at least 20 characters, in their order and
\* with that block as raw text, and none for a shorter entry, wherever the
\* shorter entries stand.
C20_ShortEntrySkipped ==
    (returned # << >> /\ properties = {}) =>
        LET entries == LongEntries(given.pdf_text)
        IN  /\ Len(returned[1]) = Len(entries)
            /\ \A k \in 1..Len(entries) :
                  /\ returned[1][k].raw_text = entries[k][2]
                  /\ returned[1][k].number = (IF entries[k][1] = "1." THEN 1 ELSE 2)

\* C20 witness: of a document whose first entry is short and whose second
\* is long, the second alone was returned.
C20_Witness ==
    /\ given.pdf_text = <<"1.", LineBank, "2.", LineKrugersdorp, LineNCR>>
    /\ returned # << >>
    /\ Len(returned[1]) = 1
    /\ returned[1][1].number = 2
    /\ returned[1][1].raw_text = <<LineKrugersdorp, LineNCR>>

\* Whether a line of the block reads the phrase, whatever its case.
Mentions(block, phrase) ==
    \E k \in 1..Len(block) : Contains(LowerText[block[k]], Spelling[phrase])

\* C21: the reserve kind of a record follows the fixed order of the rules: a
\* block that reads "No Court Reserve" is of kind 'none' without a price;
\* failing that, one that reads "Bank Reserve" is of kind 'bank' without a
\* price; failing that, one with an amount before "Court Reserve" is of
\* kind 'court' with that amount; any other is 'unknown' without a price.
C21_ReservePriority ==
    returned # << >> =>
        \A i \in 1..Len(returned[1]) :
            LET rec == returned[1][i]
                kind == <<rec.reserve_price, rec.reserve_type>>
            IN  IF Mentions(rec.raw_text, "no court reserve") THEN kind = <<None, "none">>
                ELSE IF Mentions(rec.raw_text, "bank reserve") THEN kind = <<None, "bank">>
                ELSE IF Mentions(rec.raw_text, "court reserve") THEN kind = <<850000, "court">>
                ELSE kind = <<None, "unknown">>

\* C21 witness: a block that holds all three phrases, the amount first, was
\* parsed to the kind 'none' without a price.
C21_Witness ==
    /\ given.pdf_text = <<"1.", LineCourt, LineBank, LineNCR>>
    /\ returned # << >>
    /\ Len(returned[1]) = 1
    /\ returned[1][1].raw_text = <<LineCourt, LineBank, LineNCR>>
    /\ returned[1][1].reserve_type = "none"
    /\ returned[1][1].reserve_price = None

\* C22: a step that changes the properties catalogue or the seen store is a
\* step of scrape_and_notify (its upsert of a parsed record or its marking
\* of a notified record); no step of a command handler changes either.
C22_OnlyTheJobWrites ==
    [][(properties' # properties \/ seen_listings' # seen_listings)
          => \E r \in RunIds : /\ run[r].pc \in {"upsert", "mark"}
                               /\ run'[r] # run[r]]_vars

\* C23: every stored preference that has both a minimum and a maximum price
\* has minimum <= maximum, whatever commands the users have sent.
C23_MinAtMostMax ==
    \A row \in preferences :
        (row.min_price # None /\ row.max_price # None) => row.min_price <= row.max_price

\* C24: a preference that a command activates again after /clearpreferences
\* carries the values of that command only: after /setprice no keywords,
\* after /setlocation no price bound.
C24_ClearForgets ==
    [][\A old \in preferences, new \in preferences' :
          (old.id = new.id /\ old.active = 0 /\ new.active = 1)
              => \/ new.location_keywords = NullText
                 \/ new.min_price = None /\ new.max_price = None]_vars

\* The documents that hold the entry '3. 450 m2 ... R 850,000 Court Reserve
\* ... Roodepoort' and no other entry in their section.
ScenarioDocuments ==
    {head \o <<"3.", LineSize, LineCourt, LineRoodepoort>> \o tail :
        head \in {<< >>, <<StartLine>>},
        tail \in {<< >>, <<EndLine>>}}

\* C25: the entry numbered 3 that reads a size of 450, an amount of 850,000
\* before "Court Reserve" and a Roodepoort address is parsed to one record
\* with number 3, size 450, kind 'court' and price 850000 under the sale
\* date given; the record matches the preference 500000..1000000 with the
\* keyword Roodepoort and does not match the preference 900000..1000000.
C25_Scenario ==
    (given.pdf_text \in ScenarioDocuments /\ returned # << >>) =>
        /\ Len(returned[1]) = 1
        /\ returned[1][1].number = 3
        /\ returned[1][1].sale_date = given.sale_date
        /\ returned[1][1].size_m2 = 450
        /\ returned[1][1].reserve_type = "court"
        /\ returned[1][1].reserve_price = 850000
        /\ Len(returned) = 2 =>
              returned[2] = <<given.pref.location_keywords = <<"Roodepoort">>
                              /\ given.pref.min_price = 500000>>

\* C25 witness: the entry was parsed and the record was matched against the
\* preference 900000..1000000, which it does not match.
C25_Witness ==
    /\ given.pdf_text = <<StartLine, "3.", LineSize, LineCourt, LineRoodepoort, EndLine>>
    /\ given.pref.min_price = 900000
    /\ Len(returned) = 2
    /\ Len(returned[1]) = 1
    /\ returned[1][1].reserve_price = 850000
    /\ returned[2] = <<FALSE>>

\* C26: when a run comes to an event whose sale date is in its cached-date
\* set, the event carries no downloaded document, the run goes on to the
\* notifications without any extraction or insert (the catalogue is as it
\* was), and the list it processes is exactly the catalogue rows of that
\* sale date, each once.
C26_CachedDateIsLoaded ==
    [][\A r \in RunIds :
          (/\ run[r].pc = "event"
           /\ run'[r].pc \in {"prop", "upsert"}
           /\ run[r].raw_events[run[r].ei].date \in run[r].cached_dates)
          => LET event == run[r].raw_events[run[r].ei]
                 rows == {row \in properties : row.sale_date = event.date}
                 loaded == run'[r].properties
             IN  /\ event.pdf_text = << >>
                 /\ event.pdf_url = ""
                 /\ run'[r].pc = "prop"
                 /\ properties' = properties
                 /\ Len(loaded) = Cardinality(rows)
                 /\ {loaded[i] : i \in 1..Len(loaded)}
                       = {property_from_db(row) : row \in rows}]_vars

\* C26 witness: a run stands at the first record of an event whose sale
\* date was cached when it began; the records come from the catalogue.
C26_Witness ==
    \E r \in RunIds :
        /\ run[r].pc = "prop"
        /\ run[r].pi = 1
        /\ run[r].ei <= Len(run[r].raw_events)
        /\ run[r].raw_events[run[r].ei].date \in run[r].cached_dates
        /\ run[r].raw_events[run[r].ei].pdf_text = << >>
        /\ Len(run[r].properties) = 2
        /\ \A i \in 1..2 :
              \E row \in properties : run[r].properties[i] = property_from_db(row)

\* C27: while a run is under way, the catalogue holds, for every sale date
\* of the run's cached-date set, every record that the extraction of the
\* date's document yields.
C27_CachedDatesAreComplete ==
    \A r \in RunIds :
        Active(r) =>
            \A d \in run[r].cached_dates :
                \A i \in 1..Len(SiteEvents) :
                    SiteEvents[i].date = d =>
                        LET records == parse_pdf_properties(SiteEvents[i].doc, d,
                                                            SiteEvents[i].url)
                        IN  \A k \in 1..Len(records) :
                                property_hash(records[k]) \in CatalogueHashes

\* C30: no send of a run goes to a subscriber for a record identity that
\* the same run has already sent to that subscriber, also when the identity
\* stands in the lists of two of the run's events.
C30_OncePerRun ==
    [][\A r \in RunIds :
          (run[r].pc = "send" /\ run'[r].pc = "fanout")
              => <<CurrentHash(r), FanoutItems(r)[run[r].fi].telegram_id>>
                    \notin run[r].mine]_vars

\* C30 witness: a run has come, under a second event of one date, to a
\* record identity that it sent to a subscriber under the first.
C30_Witness ==
    LET r == "cron"
    IN  /\ run[r].pc = "prop"
        /\ run[r].ei = 3
        /\ Len(run[r].raw_events) >= 3
        /\ run[r].raw_events[3].date = run[r].raw_events[1].date
        /\ run[r].pi <= Len(run[r].properties)
        /\ \E u \in TelegramIds : <<CurrentHash(r), u>> \in run[r].mine

\* C28: every record that parse_pdf_properties returns has a number from 1
\* to 99.
C28_NumberInRange ==
    returned # << >> =>
        \A i \in 1..Len(returned[1]) : returned[1][i].number \in 1..99

\* The lines of a document between its first start marker, or its top when
\* it has none, and the first end marker after that, or its end.
Between(doc) ==
    LET starts == {i \in 1..Len(doc) : doc[i] = StartLine}
        s == IF starts = {} THEN 0 ELSE CHOOSE i \in starts : \A j \in starts : i <= j
        ends == {i \in (s + 1)..Len(doc) : doc[i] = EndLine}
        e == IF ends = {} THEN Len(doc) + 1 ELSE CHOOSE i \in ends : \A j \in ends : i <= j
    IN  SubSeq(doc, s + 1, e - 1)

\* C29: the records that parse_pdf_properties returns are those of the
\* numbered entries of sufficient length between the start marker and the
\* end marker, one each and in their order; an entry before the start
\* marker or after the end marker gives none, and without a start marker
\* the entries are counted from the top of the text.
C29_OnlyTheSection ==
    returned # << >> =>
        LET section == Between(given.pdf_text)
            IsLong(m) == Len(Characters(BlockAt(section, m))) >= 20
            places == SelectSeq(MarkerPlaces(section), IsLong)
        IN  /\ Len(returned[1]) = Len(places)
            /\ \A k \in 1..Len(places) :
                  returned[1][k].raw_text = BlockAt(section, places[k])

\* C29 witness: of a document with one entry before the start marker, one
\* in the section and one after the end marker, the second alone was
\* returned.
C29_Witness ==
    /\ given.pdf_text = <<"3.", LineRoodepoort, StartLine, "3.", LineCourt,
                           EndLine, "3.", LineRoodepoort>>
    /\ returned # << >>
    /\ Len(returned[1]) = 1
    /\ returned[1][1].raw_text = <<LineCourt>>

\* C31: while a run is in the loop over the records of an event whose date
\* was not cached (testing, fanning out, sending or marking), the catalogue
\* holds a row for every record extracted for that event.
C31_EventStoredBeforeNotified ==
    \A r \in RunIds :
        (/\ run[r].pc \in {"prop", "fanout", "send", "mark"}
         /\ run[r].raw_events[run[r].ei].date \notin run[r].cached_dates)
        => \A i \in 1..Len(run[r].properties) :
               property_hash(run[r].properties[i]) \in CatalogueHashes

\* C31 witness: a run awaits the first send for the first of two records
\* that it extracted from a document.
C31_Witness ==
    \E r \in RunIds :
        /\ run[r].pc = "send"
        /\ run[r].raw_events[run[r].ei].date \notin run[r].cached_dates
        /\ run[r].raw_events[run[r].ei].pdf_text # << >>
        /\ Len(run[r].properties) = 2
        /\ run[r].pi = 1
        /\ run[r].mine = {}

\* C32: every identity of the seen store is the identity of a catalogue row
\* and has been handed to send_notification for a subscriber; every
\* identity a run has marked was handed over for a subscriber by that run.
C32_SeenWasNotified ==
    /\ SeenHashes \subseteq CatalogueHashes
    /\ \A h \in SeenHashes : \E u \in TelegramIds : <<h, u>> \in sent
    /\ \A r \in RunIds :
          \A h \in run[r].marked : \E u \in TelegramIds : <<h, u>> \in run[r].mine

\* C32 witness: a run has marked one identity that it sent and has passed
\* over another for which it made no attempt; the second is not seen.
C32_Witness ==
    \E r \in RunIds :
        /\ run[r].marked # {}
        /\ run[r].marked \subseteq SeenHashes
        /\ \E h \in unmatched : h \notin SeenHashes /\ \A u \in TelegramIds : <<h, u>> \notin sent

\* C33: the record that property_from_db rebuilds from a catalogue row has
\* the identity under which upsert_property stored the row, so the records
\* loaded from the catalogue have the identities of the records that were
\* extracted and stored.
C33_RebuiltHasSameIdentity ==
    /\ \A row \in properties : property_hash(property_from_db(row)) = row.property_hash
    /\ properties # {} =>
          LET extracted == parse_pdf_properties(given.pdf_text, given.sale_date,
                                                given.pdf_url)
              rows == get_upcoming_properties(properties, day)
          IN  {property_hash(property_from_db(rows[i])) : i \in 1..Len(rows)}
                = {property_hash(extracted[i]) : i \in 1..Len(extracted)}

\* C33 witness: two records of different identities were extracted, stored
\* and rebuilt from their rows.
C33_Witness ==
    /\ Cardinality(properties) = 2
    /\ returned # << >>
    /\ Len(returned[1]) = 2
    /\ property_hash(returned[1][1]) # property_hash(returned[1][2])
    /\ \A i \in 1..2 :
          \E row \in properties :
              /\ returned[1][i] = property_from_db(row)
              /\ property_hash(returned[1][i]) = row.property_hash

\* The rows the catalogue may hold for the records of the calendar's
\* documents.
LiveRows ==
    {PropertyRow(record, now) :
        record \in UNION {LET records == parse_pdf_properties(RepeatEvents[i].doc,
                                                               RepeatEvents[i].date,
                                                               RepeatEvents[i].url)
                          IN  {records[k] : k \in 1..Len(records)} :
                          i \in 1..Len(RepeatEvents)},
        now \in 1..MaxDay}

\* A run is still to come for a catalogue row of an upcoming sale date that
\* the users and active preferences give at least one subscriber.
Pending(row) ==
    /\ row \in properties
    /\ row.sale_date >= day
    /\ ~Active("cron")
    /\ nrun < MaxRuns
    /\ Targets(property_from_db(row), get_all_users(users),
               get_all_active_preferences(preferences)) # {}

\* C34: under a scheduler that keeps triggering the job and lets it
\* complete, a catalogue record of an upcoming sale date that some
\* registered subscriber is to receive is in the end handed to
\* send_notification for a subscriber and marked seen.
C34_EventuallyNotified ==
    \A row \in LiveRows :
        Pending(row) ~> (/\ row.property_hash \in SeenHashes
                         /\ \E u \in TelegramIds : <<row.property_hash, u>> \in sent)

\* C34 witness: the first run of the job finds a sale date cached (a
\* /listings scrape stored its records), has sent a record of it and is
\* about to mark it.
C34_Witness ==
    /\ nrun = 1
    /\ run["cron"].pc = "mark"
    /\ run["cron"].notified # {}
    /\ run["cron"].raw_events[run["cron"].ei].date \in run["cron"].cached_dates
    /\ CurrentHash("cron") \notin SeenHashes
    /\ CurrentHash("cron") \in CatalogueHashes

\* A document no entry of which is long enough for a record.
NoLongEntry(doc) ==
    LET section == Between(doc)
        places == MarkerPlaces(section)
    IN  \A k \in 1..Len(places) : Len(Characters(BlockAt(section, places[k]))) < 20

\* A sale date of the calendar every document of which fails to download or
\* has no entry long enough.
ZeroYield(d) ==
    \A i \in 1..Len(RepeatEvents) :
        RepeatEvents[i].date = d => (d \notin online \/ NoLongEntry(RepeatEvents[i].doc))

\* C35: a sale date whose extraction yields no record has no catalogue row
\* and is in no run's cached-date set, and each run that comes to an event
\* of that date takes the extraction path again and extracts nothing.
C35_EmptyDateIsRetried ==
    [][\A d \in {RepeatEvents[i].date : i \in 1..Len(RepeatEvents)} :
          ZeroYield(d) =>
              /\ \A row \in properties' : row.sale_date # d
              /\ d \notin run'["cron"].cached_dates
              /\ (/\ run["cron"].pc = "event"
                  /\ run'["cron"].pc \in {"prop", "upsert"}
                  /\ run["cron"].raw_events[run["cron"].ei].date = d)
                 => /\ run'["cron"].pc = "upsert"
                    /\ run'["cron"].properties = << >>]_vars

\* C35 witness: the second run, with other dates cached, has fetched the
\* document without a long entry again and has extracted no record of it.
C35_Witness ==
    /\ nrun = 2
    /\ run["cron"].pc = "upsert"
    /\ run["cron"].cached_dates # {}
    /\ run["cron"].raw_events[run["cron"].ei].date = 3
    /\ run["cron"].raw_events[run["cron"].ei].pdf_text = DocC
    /\ run["cron"].properties = << >>
    /\ \A row \in properties : row.sale_date # 3

\* C36: no step of /listings changes the seen store or hands anything to
\* send_notification; and under a scheduler that keeps triggering the job, a
\* record that /listings cached before any run is sent by the job to every
\* subscriber it is for.
C36_ListingsLeavesUnseen ==
    /\ [][listing' # listing =>
             /\ seen_listings' = seen_listings
             /\ sent' = sent
             /\ undelivered' = undelivered]_vars
    /\ \A row \in LiveRows :
          \A t \in TelegramIds :
              (/\ nrun = 0
               /\ ~Active("cron")
               /\ listing.pc = "idle"
               /\ row \in properties
               /\ row.sale_date >= day
               /\ t \in Targets(property_from_db(row), get_all_users(users),
                                get_all_active_preferences(preferences)))
              ~> (<<row.property_hash, t>> \in sent)

\* C36 witness: /listings has scraped and cached records before any run of
\* the job; nothing is seen and nothing has been sent.
C36_Witness ==
    /\ ncmd = 1
    /\ listing.pc = "idle"
    /\ nrun = 0
    /\ Cardinality(properties) = 3
    /\ seen_listings = {}
    /\ sent = {}

\* C37: the preferences table holds at most one row for a subscriber, and a
\* call for a subscriber who has a row, active or not, adds no row and gives
\* no row another id or another subscriber.
C37_OneRowPerSubscriber ==
    [][/\ \A a, b \in preferences' : a.telegram_id = b.telegram_id => a = b
       /\ \A old \in preferences :
             /\ \E new \in preferences' :
                   new.id = old.id /\ new.telegram_id = old.telegram_id
             /\ Cardinality({new \in preferences' : new.telegram_id = old.telegram_id}) = 1]_vars

\* C37 witness: the first subscriber's one row holds what two calls gave
\* it, a price range and keywords; the second subscriber's row is cleared.
C37_Witness ==
    /\ Cardinality(preferences) = 2
    /\ \E row \in preferences :
          /\ row.telegram_id = 1
          /\ row.active = 1
          /\ row.min_price = 900000
          /\ row.location_keywords # NullText
    /\ \E row \in preferences : row.telegram_id = 2 /\ row.active = 0

====
